---- MODULE Spec2Model ----
(***************************************************************************)
(* A model of gitlab/objects.py: the generic GitlabObject / BaseManager    *)
(* dispatch layer.  One Instance is held by the caller (inst); every       *)
(* operation records the transport calls it issued (calls), how it ended   *)
(* (outcome) and what it returned (ret).                                   *)
(***************************************************************************)
EXTENDS Integers, Sequences, FiniteSets, TLC

VARIABLES
    inst,       \* the Instance the caller holds, or NoObj
    op,         \* the operation invoked last, with its inputs
    calls,      \* the transport calls (gl.get/list/create/update/delete) that operation issued
    outcome,    \* "ok", or the exception the operation raised
    ret,        \* what the operation returned
    arbitrary,  \* whether payloads may carry keys colliding with instance machinery
    scope,      \* the part of the program explored: its types and its inputs
    extraDefault \* the default of extra_parameters of ProjectIssue._data_for_gitlab:
                \* one dict, made when the function is defined, shared by all calls

vars == <<inst, op, calls, outcome, ret, arbitrary, scope, extraDefault>>

(***************************************************************************)
(* Bounds.                                                                 *)
(***************************************************************************)
MaxList == 2    \* longest listing the transport returns
MaxNested == 2  \* longest sequence that is the value of a payload field

(***************************************************************************)
(* Python values.  Each value is a tagged token: "i1" is the int 1, "s1"   *)
(* the string '1', "sa" the string 'a'.  "Mgr" is a Manager object.        *)
(***************************************************************************)
Absent == "absent"      \* the attribute / key is not there
NoId   == "noid"        \* a transport call that takes no id
Gl     == "gl"          \* the connection object
SelfRef == "self"       \* an Instance, where it is passed in the place of the connection

Values == {"None", "i1", "i2", "s1", "sa", "True", "False", "from_list", "Mgr"}

\* a mapping that is the value of a payload field
Dicts == {"d1", "d2"}

MapKey(d) == IF d = "d1" THEN "id" ELSE "name"
MapVal(d) == IF d = "d1" THEN "i1" ELSE "sa"

\* the types a nested-type declaration of a modelled type names
NestedClasses == {"User", "ProjectTagRelease"}

\* an Instance that is the value of an attribute: cls(gl, d) with d a mapping
InstToken(cls, gl, d) == cls \o "(" \o gl \o "," \o d \o ")"

NestedObjs ==
    {[tok |-> InstToken(c, g, d), cls |-> c, gl |-> g, raw |-> d] :
        c \in NestedClasses, g \in {Gl, SelfRef}, d \in Dicts}

InstTokens == {n.tok : n \in NestedObjs}

NestedOf(tok) == CHOOSE n \in NestedObjs : n.tok = tok

\* a sequence that is the value of an attribute or of a payload field
Elems == Dicts \cup InstTokens \cup {"sa", "s1"}

RECURSIVE Joined(_)
Joined(s) ==
    IF Len(s) = 0 THEN ""
    ELSE IF Len(s) = 1 THEN s[1]
    ELSE s[1] \o ";" \o Joined(Tail(s))

ListToken(s) == "[" \o Joined(s) \o "]"

ListSeqs == UNION {[1..n -> Elems] : n \in 0..MaxNested}

ListTokens == {ListToken(s) : s \in ListSeqs}

\* isinstance(v, list)
IsList(v) == v \in ListTokens

ItemsOf(tok) == CHOOSE s \in ListSeqs : ListToken(s) = tok

\* str(v)
Str(v) ==
    CASE v = "i1" -> "1"
      [] v = "s1" -> "1"
      [] v = "i2" -> "2"
      [] v = "sa" -> "a"
      [] OTHER   -> v

\* bool(v): None and False are falsy, everything else modelled is truthy
Truthy(v) == v \notin {"None", "False"}

ApiKeys     == {"id", "name", "project_id", "issue_id", "user_id"}
FlagKeys    == {"canCreate", "canUpdate", "canDelete"}
ManagerKeys == {"keys", "notes", "branches", "tags", "issues"}
\* fields of the modelled types that are serialized or hold nested values
FieldKeys   == {"password", "tag_name", "ref", "message", "author", "owner",
                "release", "description"}
\* the generic parameters every serialization carries
GenericKeys == {"sudo", "page", "per_page"}
\* attributes the methods of single types read and assign
VerbKeys    == {"state", "protected", "merge_request_id"}
\* attributes the overrides of _data_for_gitlab read
SerialKeys  == {"confirm", "labels"}
\* attributes of a group member
MemberKeys  == {"group_id", "access_level"}
\* the keys of the data merge() sends
MergeKeys   == {"merge_commit_message", "should_remove_source_branch",
                "merged_when_build_succeeds"}
Keys        == ApiKeys \cup FlagKeys \cup ManagerKeys \cup FieldKeys
               \cup GenericKeys \cup VerbKeys \cup MergeKeys \cup SerialKeys
               \cup MemberKeys
               \cup {"_from_api", "gitlab"}

EmptyMap == [k \in Keys |-> Absent]
Dom(m) == {k \in Keys : m[k] # Absent}

\* dict.update: b's keys over a's
Overlay(a, b) == [k \in Keys |-> IF b[k] # Absent THEN b[k] ELSE a[k]]

M1(k1, v1) == [EmptyMap EXCEPT ![k1] = v1]
M2(k1, v1, k2, v2) == [EmptyMap EXCEPT ![k1] = v1, ![k2] = v2]

\* the mapping a Dicts value stands for
MapOf(d) == M1(MapKey(d), MapVal(d))

(***************************************************************************)
(* Resource Descriptors: the class attributes of the modelled types.  The  *)
(* attribute lists and the nested-type declarations are given on the       *)
(* modelled key set (Keys): an Instance of the model has no other          *)
(* attribute.  ProjectTagRelease is reached as the value of an attribute   *)
(* only.                                                                   *)
(***************************************************************************)
Classes == {"GitlabObject", "User", "UserKey", "Issue", "ProjectFork",
            "ProjectBranch", "ProjectTag", "ProjectIssue", "ProjectIssueNote"}

Default ==
    [url |-> FALSE, canGet |-> "True", canList |-> "True", canCreate |-> "True",
     canUpdate |-> "True", canDelete |-> "True", idAttr |-> "id",
     requiredUrlAttrs |-> {}, managers |-> {}, constructorTypes |-> {},
     requiredCreateAttrs |-> {}, optionalCreateAttrs |-> {},
     requiredUpdateAttrs |-> {}, optionalUpdateAttrs |-> {}]

Mgr(var, cls, args) == [var |-> var, cls |-> cls, args |-> args]

UserKey ==
    [Default EXCEPT !.url = TRUE, !.canGet = "from_list", !.canUpdate = "False",
                    !.requiredUrlAttrs = {"user_id"}]

User ==
    [Default EXCEPT !.url = TRUE,
                    !.requiredCreateAttrs = {"name", "password"},
                    !.optionalCreateAttrs = {"confirm"},
                    !.requiredUpdateAttrs = {"name"},
                    !.optionalUpdateAttrs = {"password", "confirm"},
                    !.managers = {Mgr("keys", "UserKey", {<<"user_id", "id">>})}]

Issue ==
    [Default EXCEPT !.url = TRUE, !.canGet = "from_list", !.canDelete = "False",
                    !.canUpdate = "False", !.canCreate = "False",
                    !.constructorTypes = {<<"author", "User">>}]

ProjectFork ==
    [Default EXCEPT !.url = TRUE, !.canUpdate = "False", !.canDelete = "False",
                    !.canList = "False", !.canGet = "False",
                    !.requiredUrlAttrs = {"project_id"}]

ProjectBranch ==
    [Default EXCEPT !.url = TRUE, !.idAttr = "name", !.canUpdate = "False",
                    !.requiredUrlAttrs = {"project_id"},
                    !.constructorTypes = {<<"author", "User">>},
                    !.requiredCreateAttrs = {"ref"}]

ProjectTagRelease ==
    [Default EXCEPT !.url = TRUE, !.canDelete = "False", !.canList = "False",
                    !.requiredUrlAttrs = {"project_id", "tag_name"}]

ProjectTag ==
    [Default EXCEPT !.url = TRUE, !.idAttr = "name", !.canGet = "from_list",
                    !.canUpdate = "False", !.requiredUrlAttrs = {"project_id"},
                    !.constructorTypes = {<<"release", "ProjectTagRelease">>},
                    !.requiredCreateAttrs = {"tag_name", "ref"},
                    !.optionalCreateAttrs = {"message"}]

ProjectIssueNote ==
    [Default EXCEPT !.url = TRUE, !.canDelete = "False",
                    !.requiredUrlAttrs = {"project_id", "issue_id"},
                    !.constructorTypes = {<<"author", "User">>}]

ProjectIssue ==
    [Default EXCEPT !.url = TRUE, !.requiredUrlAttrs = {"project_id"},
                    !.constructorTypes = {<<"author", "User">>},
                    !.optionalCreateAttrs = {"description", "labels"},
                    !.managers = {Mgr("notes", "ProjectIssueNote",
                                      {<<"project_id", "project_id">>,
                                       <<"issue_id", "id">>})}]

Project ==
    [Default EXCEPT !.url = TRUE,
                    !.constructorTypes = {<<"owner", "User">>},
                    !.requiredCreateAttrs = {"name"},
                    !.optionalUpdateAttrs = {"name"},
                    !.managers = {Mgr("branches", "ProjectBranch",
                                      {<<"project_id", "id">>}),
                                  Mgr("tags", "ProjectTag",
                                      {<<"project_id", "id">>}),
                                  Mgr("issues", "ProjectIssue",
                                      {<<"project_id", "id">>})}]

ProjectMergeRequestNote ==
    [Default EXCEPT !.url = TRUE, !.canDelete = "False",
                    !.requiredUrlAttrs = {"project_id", "merge_request_id"},
                    !.constructorTypes = {<<"author", "User">>}]

ProjectMergeRequest ==
    [Default EXCEPT !.url = TRUE, !.requiredUrlAttrs = {"project_id"},
                    !.constructorTypes = {<<"author", "User">>},
                    !.optionalCreateAttrs = {"description"},
                    !.managers = {Mgr("notes", "ProjectMergeRequestNote",
                                      {<<"project_id", "project_id">>,
                                       <<"merge_request_id", "id">>})}]

GroupMember ==
    [Default EXCEPT !.url = TRUE, !.canGet = "from_list",
                    !.requiredUrlAttrs = {"group_id"},
                    !.requiredCreateAttrs = {"access_level", "user_id"},
                    !.requiredUpdateAttrs = {"access_level"}]

Descriptor(cls) ==
    CASE cls = "User"              -> User
      [] cls = "GroupMember"       -> GroupMember
      [] cls = "ProjectMergeRequest"     -> ProjectMergeRequest
      [] cls = "ProjectMergeRequestNote" -> ProjectMergeRequestNote
      [] cls = "UserKey"           -> UserKey
      [] cls = "Issue"             -> Issue
      [] cls = "ProjectFork"       -> ProjectFork
      [] cls = "ProjectBranch"     -> ProjectBranch
      [] cls = "ProjectTagRelease" -> ProjectTagRelease
      [] cls = "ProjectTag"        -> ProjectTag
      [] cls = "ProjectIssue"      -> ProjectIssue
      [] cls = "ProjectIssueNote"  -> ProjectIssueNote
      [] cls = "Project"           -> Project
      [] OTHER                     -> Default

\* the class attribute named k (a permission flag)
ClassAttr(cls, k) ==
    CASE k = "canCreate" -> Descriptor(cls).canCreate
      [] k = "canUpdate" -> Descriptor(cls).canUpdate
      [] k = "canDelete" -> Descriptor(cls).canDelete
      [] OTHER           -> Absent

\* every concrete type has one Manager class (obj_cls = the type); the base has none
ManagedClasses == Classes \ {"GitlabObject"}

(***************************************************************************)
(* Instances.  attrs is the instance __dict__ (the origin flag _from_api,  *)
(* the payload fields and the child Managers all live in it); built is     *)
(* the __dict__ as it was when the child Managers were constructed.        *)
(***************************************************************************)
NoObj == [cls |-> "none", attrs |-> EmptyMap, built |-> EmptyMap]

Obj(cls, attrs) == [cls |-> cls, attrs |-> attrs, built |-> attrs]

\* getattr(self, k): the instance __dict__ first, then the class
GetAttr(o, k) ==
    IF o.attrs[k] # Absent THEN o.attrs[k] ELSE ClassAttr(o.cls, k)

(***************************************************************************)
(* Operation results and the transport collaborator.                       *)
(***************************************************************************)
OK       == "ok"
NotImpl  == "NotImplementedError"
AttrErr  == "AttributeError"
TypeErr  == "TypeError"
NotFound == "GitlabGetError: Object not found"
NotYetCreated == "GitlabDeleteError: Object not yet created"


\* what an operation returns: nothing, a new Instance, a list of Instances,
\* the receiver itself, or a plain value
NoRet == [kind |-> "none", obj |-> NoObj, items |-> <<>>, val |-> Absent,
          data |-> EmptyMap]
RetObj(o) == [NoRet EXCEPT !.kind = "obj", !.obj = o]
RetList(l) == [NoRet EXCEPT !.kind = "list", !.items = l]
RetSelf(o) == [NoRet EXCEPT !.kind = "self", !.obj = o]
RetVal(v) == [NoRet EXCEPT !.kind = "val", !.val = v]
RetData(m) == [NoRet EXCEPT !.kind = "data", !.data = m]

\* how a function of the code ended: outcome, transport calls issued, the
\* receiver (or new Instance) afterwards, the value returned
Res(o, c, obj, r) == [outcome |-> o, calls |-> c, obj |-> obj, ret |-> r]

\* what the transport may answer to one call: a failure, or a body / listing
Answer(ok, body, items) == [ok |-> ok, body |-> body, items |-> items]
Failure == Answer(FALSE, EmptyMap, <<>>)

\* one transport call and its answer: gl.<fn>(cls, id, **args), or
\* gl.<fn>(obj, **args) with self the __dict__ of obj at the call
Call(fn, cls, id, self, args, answer) ==
    [fn |-> fn, cls |-> cls, id |-> id, self |-> self, args |-> args,
     answer |-> answer, data |-> EmptyMap]

\* a raw request of the Instance with __dict__ self, to a URL built with id:
\* gl._raw_<verb>(url, data=data, **kwargs)
RawCall(fn, cls, id, self, data, kwargs, answer) ==
    [Call(fn, cls, id, self, kwargs, answer) EXCEPT !.data = data]

\* the URL template of cls can be filled from params
UrlResolvable(cls, params) ==
    Descriptor(cls).requiredUrlAttrs \subseteq Dom(params)

\* the transport answers t unless the URL cannot be built, and then it fails
Transport(cls, params, t) ==
    IF UrlResolvable(cls, params) THEN t ELSE Failure

TransportError(fn) ==
    CASE fn = "get"    -> "GitlabGetError"
      [] fn = "list"   -> "GitlabListError"
      [] fn = "create" -> "GitlabCreateError"
      [] fn = "update" -> "GitlabUpdateError"
      [] OTHER         -> "GitlabDeleteError"

(***************************************************************************)
(* GitlabObject: hydration and construction.                               *)
(***************************************************************************)
\* the nested type the type declares for the key k
NestedType(cls, k) == (CHOOSE p \in Descriptor(cls).constructorTypes : p[1] = k)[2]

HasNestedType(cls, k) == \E p \in Descriptor(cls).constructorTypes : p[1] = k

\* _get_object without the nested types
GetObjectRaw(cls, gl, k, v) == v

\* _get_object: the nested type constructed on the connection reference of
\* the Instance and the value, or the value itself
GetObject(cls, gl, k, v) ==
    IF HasNestedType(cls, k) THEN InstToken(NestedType(cls, k), gl, v) ELSE v

\* the attribute _set_from_dict stores for the key k with value v
Hydrated(cls, gl, k, v) ==
    IF IsList(v)
    THEN ListToken([i \in 1..Len(ItemsOf(v)) |->
                      GetObject(cls, gl, k, ItemsOf(v)[i])])
    ELSE IF v = "None" THEN "None"
    ELSE GetObject(cls, gl, k, v)

\* _set_from_dict: every key of data becomes an attribute
SetFromDict(cls, attrs, data) ==
    [k \in Keys |-> IF data[k] # Absent
                    THEN Hydrated(cls, attrs["gitlab"], k, data[k])
                    ELSE attrs[k]]

\* _set_managers: setattr(self, var, manager) for each declared manager
SetManagers(cls, attrs) ==
    [k \in Keys |->
        IF \E m \in Descriptor(cls).managers : m.var = k THEN "Mgr"
        ELSE attrs[k]]

\* a default for the attribute the type names as its identifier
DefaultIdAttr(cls, attrs) ==
    IF attrs[Descriptor(cls).idAttr] = Absent
    THEN [attrs EXCEPT ![Descriptor(cls).idAttr] = "None"] ELSE attrs

\* the identifier default at the end of __init__
DefaultId(cls, attrs) ==
    IF attrs["id"] = Absent THEN [attrs EXCEPT !["id"] = "None"] ELSE attrs

\* an __init__ that drops its kwargs
InitAttrsNoKwargs(gl, cls, fromApi, data, kwargs) ==
    LET a0 == [EmptyMap EXCEPT !["_from_api"] = fromApi, !["gitlab"] = gl]
        a1 == SetFromDict(cls, a0, data)
        a3 == DefaultId(cls, a1)
    IN  SetManagers(cls, a3)

\* __init__ after the origin flag is settled: hydrate, overlay kwargs,
\* default the identifier, build the managers
InitAttrs(gl, cls, fromApi, data, kwargs) ==
    LET a0 == [EmptyMap EXCEPT !["_from_api"] = fromApi, !["gitlab"] = gl]
        a1 == SetFromDict(cls, a0, data)
        a2 == Overlay(a1, kwargs)
        a3 == DefaultId(cls, a2)
    IN  SetManagers(cls, a3)

\* cls(gl, data) with data a dict, on any connection reference
Construct(gl, cls, data) == Obj(cls, InitAttrs(gl, cls, "False", data, EmptyMap))

\* the Instance that is the value of an attribute
NestedInstance(tok) ==
    Construct(NestedOf(tok).gl, NestedOf(tok).cls, MapOf(NestedOf(tok).raw))

\* cls(gl, data, **kwargs) with data a dict
InitFromDict(cls, data, kwargs) ==
    Res(OK, <<>>, Obj(cls, InitAttrs(Gl, cls, "False", data, kwargs)), NoRet)

\* the guard of __init__'s fetch: self.canGet is read before any attribute is set
InitGetDenied(cls) == ~Truthy(Descriptor(cls).canGet)

\* a fetching construction in which the response wins over the kwargs and the
\* origin flag stays local
InitFromIdLocal(cls, id, kwargs, t) ==
    IF InitGetDenied(cls) THEN Res(NotImpl, <<>>, NoObj, NoRet)
    ELSE LET a == Transport(cls, kwargs, t)
             c == <<Call("get", cls, id, EmptyMap, kwargs, a)>>
         IN  IF ~a.ok THEN Res(TransportError("get"), c, NoObj, NoRet)
             ELSE Res(OK, c, Obj(cls, InitAttrs(Gl, cls, "False", Overlay(kwargs, a.body),
                                                EmptyMap)), NoRet)

\* cls(gl, id, **kwargs) with id None, an int or a string: fetch
InitFromId(cls, id, kwargs, t) ==
    IF InitGetDenied(cls) THEN Res(NotImpl, <<>>, NoObj, NoRet)
    ELSE LET a == Transport(cls, kwargs, t)
             c == <<Call("get", cls, id, EmptyMap, kwargs, a)>>
         IN  IF ~a.ok THEN Res(TransportError("get"), c, NoObj, NoRet)
             ELSE Res(OK, c, Obj(cls, InitAttrs(Gl, cls, "True", a.body, kwargs)), NoRet)

(***************************************************************************)
(* GitlabObject: save and delete.                                          *)
(***************************************************************************)
CreateDenied(o) == ~Truthy(GetAttr(o, "canCreate"))
UpdateDenied(o) == ~Truthy(GetAttr(o, "canUpdate"))
DeleteDenied(o) == ~Truthy(GetAttr(o, "canDelete"))

\* _create that forgets to set the origin flag
CreateKeepsOrigin(o, kwargs, t) ==
    IF CreateDenied(o) THEN Res(NotImpl, <<>>, o, NoRet)
    ELSE LET a == Transport(o.cls, Overlay(o.attrs, kwargs), t)
             c == <<Call("create", o.cls, NoId, o.attrs, kwargs, a)>>
         IN  IF ~a.ok THEN Res(TransportError("create"), c, o, NoRet)
             ELSE Res(OK, c,
                      [o EXCEPT !.attrs = SetFromDict(o.cls, o.attrs, a.body)],
                      NoRet)

\* _create
Create(o, kwargs, t) ==
    IF CreateDenied(o) THEN Res(NotImpl, <<>>, o, NoRet)
    ELSE LET a == Transport(o.cls, Overlay(o.attrs, kwargs), t)
             c == <<Call("create", o.cls, NoId, o.attrs, kwargs, a)>>
         IN  IF ~a.ok THEN Res(TransportError("create"), c, o, NoRet)
             ELSE Res(OK, c,
                      [o EXCEPT !.attrs = [SetFromDict(o.cls, o.attrs, a.body)
                                             EXCEPT !["_from_api"] = "True"]],
                      NoRet)

\* an _update that replaces the attributes by the response
UpdateReplaces(o, kwargs, t) ==
    IF UpdateDenied(o) THEN Res(NotImpl, <<>>, o, NoRet)
    ELSE LET a == Transport(o.cls, Overlay(o.attrs, kwargs), t)
             c == <<Call("update", o.cls, NoId, o.attrs, kwargs, a)>>
         IN  IF ~a.ok THEN Res(TransportError("update"), c, o, NoRet)
             ELSE Res(OK, c,
                      [o EXCEPT !.attrs = SetFromDict(o.cls,
                                              [EmptyMap EXCEPT !["gitlab"] = Gl],
                                              a.body)],
                      NoRet)

\* _update
Update(o, kwargs, t) ==
    IF UpdateDenied(o) THEN Res(NotImpl, <<>>, o, NoRet)
    ELSE LET a == Transport(o.cls, Overlay(o.attrs, kwargs), t)
             c == <<Call("update", o.cls, NoId, o.attrs, kwargs, a)>>
         IN  IF ~a.ok THEN Res(TransportError("update"), c, o, NoRet)
             ELSE Res(OK, c,
                      [o EXCEPT !.attrs = SetFromDict(o.cls, o.attrs, a.body)],
                      NoRet)

\* the origin flag: server-hydrated or local
FromApi(o) == Truthy(o.attrs["_from_api"])

\* save with the routing the wrong way round
SaveObjInverted(o, kwargs, t) ==
    IF FromApi(o) THEN Create(o, kwargs, t) ELSE Update(o, kwargs, t)

\* GroupMember._update: user_id is set from id, then the generic _update
GroupMemberUpdate(o, kwargs, t) ==
    Update([o EXCEPT !.attrs["user_id"] = GetAttr(o, "id")], kwargs, t)

\* self._update of the type of o
UpdateOf(o, kwargs, t) ==
    IF o.cls = "GroupMember" THEN GroupMemberUpdate(o, kwargs, t)
    ELSE Update(o, kwargs, t)

\* save
SaveObj(o, kwargs, t) ==
    IF FromApi(o) THEN UpdateOf(o, kwargs, t) ELSE Create(o, kwargs, t)

\* delete without the check of the origin flag
DeleteObjUnguarded(o, kwargs, t) ==
    IF DeleteDenied(o) THEN Res(NotImpl, <<>>, o, NoRet)
    ELSE LET a == Transport(o.cls, Overlay(o.attrs, kwargs), t)
             c == <<Call("delete", o.cls, NoId, o.attrs, kwargs, a)>>
         IN  Res(IF a.ok THEN OK ELSE TransportError("delete"), c, o, NoRet)

\* a delete that marks the Instance as no longer on the server
DeleteObjResets(o, kwargs, t) ==
    IF DeleteDenied(o) THEN Res(NotImpl, <<>>, o, NoRet)
    ELSE IF ~FromApi(o) THEN Res(NotYetCreated, <<>>, o, NoRet)
    ELSE LET a == Transport(o.cls, Overlay(o.attrs, kwargs), t)
             c == <<Call("delete", o.cls, NoId, o.attrs, kwargs, a)>>
         IN  IF a.ok THEN Res(OK, c, [o EXCEPT !.attrs["_from_api"] = "False"], NoRet)
             ELSE Res(TransportError("delete"), c, o, NoRet)

\* delete
DeleteObj(o, kwargs, t) ==
    IF DeleteDenied(o) THEN Res(NotImpl, <<>>, o, NoRet)
    ELSE IF ~FromApi(o) THEN Res(NotYetCreated, <<>>, o, NoRet)
    ELSE LET a == Transport(o.cls, Overlay(o.attrs, kwargs), t)
             c == <<Call("delete", o.cls, NoId, o.attrs, kwargs, a)>>
         IN  Res(IF a.ok THEN OK ELSE TransportError("delete"), c, o, NoRet)


(***************************************************************************)
(* Methods of single types: Project.star / unstar and                      *)
(* ProjectTag.set_release_description.  Each issues one raw request; r is  *)
(* the response.                                                           *)
(***************************************************************************)
\* a response to a raw request: its status code and the mapping r.json() gives
Raw(status, body) ==
    [ok |-> status < 400, body |-> body, items |-> <<>>, status |-> status]

\* raise_error_from_response(r, error, expected) raises
Unexpected(r, expected) == r.status \notin expected

\* the Dicts value of a mapping
DictOf(m) == CHOOSE d \in Dicts : MapOf(d) = m

\* a star that refreshes the receiver from the body and returns it
StarObjInPlace(o, r) ==
    LET c == <<Call("raw_post", o.cls, GetAttr(o, "id"), o.attrs, EmptyMap, r)>>
    IN  IF Unexpected(r, {201, 304}) THEN Res("GitlabGetError", c, o, NoRet)
        ELSE IF r.status = 201
        THEN LET n == [o EXCEPT !.attrs = SetFromDict(o.cls, o.attrs, r.body)]
             IN  Res(OK, c, n, RetSelf(n))
        ELSE Res(OK, c, o, RetSelf(o))

\* Project.star
StarObj(o, r) ==
    LET c == <<Call("raw_post", o.cls, GetAttr(o, "id"), o.attrs, EmptyMap, r)>>
    IN  IF Unexpected(r, {201, 304}) THEN Res("GitlabGetError", c, o, NoRet)
        ELSE IF r.status = 201
        THEN Res(OK, c, o, RetObj(Construct(o.attrs["gitlab"], "Project", r.body)))
        ELSE Res(OK, c, o, RetSelf(o))

\* Project.unstar
UnstarObj(o, r) ==
    LET c == <<Call("raw_delete", o.cls, GetAttr(o, "id"), o.attrs, EmptyMap, r)>>
    IN  IF Unexpected(r, {200, 304}) THEN Res("GitlabDeleteError", c, o, NoRet)
        ELSE IF r.status = 200
        THEN Res(OK, c, o, RetObj(Construct(o.attrs["gitlab"], "Project", r.body)))
        ELSE Res(OK, c, o, RetSelf(o))

\* a set_release_description that creates the release on every call
SetReleaseDescriptionPost(o, description, r) ==
    IF \E k \in {"project_id", "name", "release"} : GetAttr(o, k) = Absent
    THEN Res(AttrErr, <<>>, o, NoRet)
    ELSE LET c == <<Call("raw_post", o.cls, GetAttr(o, "name"), o.attrs,
                         M1("description", description), r)>>
         IN  IF Unexpected(r, {201}) THEN Res("GitlabCreateError", c, o, NoRet)
             ELSE Res(OK, c,
                      [o EXCEPT !.attrs["release"] =
                           InstToken("ProjectTagRelease", SelfRef, DictOf(r.body))],
                      NoRet)

\* ProjectTag.set_release_description
SetReleaseDescription(o, description, r) ==
    IF \E k \in {"project_id", "name", "release"} : GetAttr(o, k) = Absent
    THEN Res(AttrErr, <<>>, o, NoRet)
    ELSE LET post == GetAttr(o, "release") = "None"
             c == <<Call(IF post THEN "raw_post" ELSE "raw_put", o.cls,
                         GetAttr(o, "name"), o.attrs,
                         M1("description", description), r)>>
         IN  IF post /\ Unexpected(r, {201}) THEN Res("GitlabCreateError", c, o, NoRet)
             ELSE IF ~post /\ Unexpected(r, {200})
             THEN Res("GitlabUpdateError", c, o, NoRet)
             ELSE Res(OK, c,
                      [o EXCEPT !.attrs["release"] =
                           InstToken("ProjectTagRelease", SelfRef, DictOf(r.body))],
                      NoRet)

(***************************************************************************)
(* Methods of single types: User.block / unblock, ProjectBranch.protect /  *)
(* unprotect, ProjectMergeRequest.merge /                                  *)
(* cancel_merge_when_build_succeeds.  Each issues one raw PUT.             *)
(***************************************************************************)
\* the status code raise_error_from_response expects when none is named
ExpectedDefault == {200}

\* the error raise_error_from_response raises for a status the mapping
\* errors does not name
OperationError == "GitlabOperationError"

\* the error raise_error_from_response(r, errors) raises with errors a mapping
\* from status codes to errors
ErrorFor(r, errors) ==
    IF \E p \in errors : p[1] = r.status
    THEN (CHOOSE p \in errors : p[1] = r.status)[2]
    ELSE OperationError

\* User.block / User.unblock: the PUT, then the state attribute
SetState(o, error, state, kwargs, r) ==
    LET c == <<RawCall("raw_put", o.cls, GetAttr(o, "id"), o.attrs, EmptyMap,
                       kwargs, r)>>
    IN  IF Unexpected(r, ExpectedDefault) THEN Res(error, c, o, NoRet)
        ELSE Res(OK, c, [o EXCEPT !.attrs["state"] = state], NoRet)

\* a block that sets the state before the request
BlockObjEarly(o, kwargs, r) ==
    LET x == SetState(o, "GitlabBlockError", "blocked", kwargs, r)
    IN  [x EXCEPT !.obj = [o EXCEPT !.attrs["state"] = "blocked"]]

\* User.block
BlockObj(o, kwargs, r) ==
    SetState(o, "GitlabBlockError", "blocked", kwargs, r)

\* User.unblock
UnblockObj(o, kwargs, r) ==
    SetState(o, "GitlabUnblockError", "active", kwargs, r)

\* ProjectBranch.protect(protect, **kwargs)
ProtectObj(o, protect, kwargs, r) ==
    IF GetAttr(o, "project_id") = Absent \/ GetAttr(o, "name") = Absent
    THEN Res(AttrErr, <<>>, o, NoRet)
    ELSE LET c == <<RawCall("raw_put", o.cls, GetAttr(o, "name"), o.attrs,
                            EmptyMap, kwargs, r)>>
         IN  IF Unexpected(r, ExpectedDefault)
             THEN Res("GitlabProtectError", c, o, NoRet)
             ELSE IF Truthy(protect)
             THEN Res(OK, c, [o EXCEPT !.attrs["protected"] = protect], NoRet)
             ELSE IF o.attrs["protected"] = Absent
             THEN Res(AttrErr, c, o, NoRet)
             ELSE Res(OK, c, [o EXCEPT !.attrs["protected"] = Absent], NoRet)

\* ProjectBranch.unprotect
UnprotectObj(o, kwargs, r) == ProtectObj(o, "False", kwargs, r)

\* the data merge() sends
MergeData(message, remove, when) ==
    [k \in Keys |->
        IF k = "merge_commit_message" /\ Truthy(message) THEN message
        ELSE IF k = "should_remove_source_branch" /\ Truthy(remove) THEN k
        ELSE IF k = "merged_when_build_succeeds" /\ Truthy(when) THEN k
        ELSE Absent]

\* the raw PUT of merge / cancel_merge_when_build_succeeds, the errors by
\* status code, the new Instance
MergeRequestPut(o, data, errors, kwargs, r) ==
    IF GetAttr(o, "project_id") = Absent THEN Res(AttrErr, <<>>, o, NoRet)
    ELSE LET c == <<RawCall("raw_put", o.cls, GetAttr(o, "id"), o.attrs, data,
                            kwargs, r)>>
         IN  IF Unexpected(r, ExpectedDefault)
             THEN Res(ErrorFor(r, errors), c, o, NoRet)
             ELSE Res(OK, c, o,
                      RetObj(Construct(SelfRef, "ProjectMergeRequest", r.body)))

MergeErrors ==
    {<<401, "GitlabMRForbiddenError">>, <<405, "GitlabMRClosedError">>}

CancelErrors ==
    {<<401, "GitlabMRForbiddenError">>, <<405, "GitlabMRClosedError">>,
     <<406, "GitlabMROnBuildSuccessError">>}

\* a merge that returns an Instance whatever the status
MergeObjSilent(o, message, remove, when, kwargs, r) ==
    LET x == MergeRequestPut(o, MergeData(message, remove, when), MergeErrors,
                             kwargs, r)
    IN  IF x.calls = <<>> THEN x
        ELSE Res(OK, x.calls, o,
                 RetObj(Construct(SelfRef, "ProjectMergeRequest", r.body)))

\* ProjectMergeRequest.merge
MergeObj(o, message, remove, when, kwargs, r) ==
    MergeRequestPut(o, MergeData(message, remove, when), MergeErrors, kwargs, r)

\* ProjectMergeRequest.cancel_merge_when_build_succeeds
CancelMergeObj(o, kwargs, r) ==
    MergeRequestPut(o, EmptyMap, CancelErrors, kwargs, r)

(***************************************************************************)
(* GitlabObject: serialization for a request (_data_for_gitlab).           *)
(***************************************************************************)
\* isinstance(v, str)
IsString(v) == v \in {"s1", "sa"}

RECURSIVE CommaJoined(_)
CommaJoined(s) ==
    IF Len(s) = 0 THEN ""
    ELSE IF Len(s) = 1 THEN Str(s[1])
    ELSE Str(s[1]) \o "," \o CommaJoined(Tail(s))

\* ",".join(value): the text of the items with commas between them
Join(v) == CommaJoined(ItemsOf(v))

\* json.dumps of a string with the text c
JsonString(c) == "\"" \o c \o "\""

\* json.dumps of one value
Json(v) ==
    CASE v = "None"  -> "null"
      [] v = "True"  -> "true"
      [] v = "False" -> "false"
      [] v = "i1"    -> "1"
      [] v = "i2"    -> "2"
      [] OTHER       -> JsonString(Str(v))

\* the attribute lists _data_for_gitlab serializes
SerializedAttrs(cls, update) ==
    LET d == Descriptor(cls)
    IN  (IF update /\ (d.requiredUpdateAttrs # {} \/ d.optionalUpdateAttrs # {})
         THEN d.requiredUpdateAttrs \cup d.optionalUpdateAttrs
         ELSE d.requiredCreateAttrs \cup d.optionalCreateAttrs)
        \cup GenericKeys

\* a serialization of every attribute of the Instance
DataForGitlabAll(o, extra, update) ==
    Res(OK, <<>>, o,
        RetData([k \in Keys |-> IF Overlay(o.attrs, extra)[k] = Absent THEN Absent
                                ELSE Json(Overlay(o.attrs, extra)[k])]))

\* GitlabObject._data_for_gitlab: the JSON object it dumps, key by key
DataForGitlab(o, extra, update) ==
    LET attributes == {k \in SerializedAttrs(o.cls, update) : GetAttr(o, k) # Absent}
        data == Overlay([k \in Keys |-> IF k \in attributes THEN GetAttr(o, k)
                                        ELSE Absent], extra)
        dumped(k) == IF extra[k] = Absent /\ IsList(data[k])
                     THEN JsonString(Join(data[k])) ELSE Json(data[k])
    IN  IF \E k \in attributes :
              /\ IsList(GetAttr(o, k))
              /\ \E i \in 1..Len(ItemsOf(GetAttr(o, k))) :
                    ~IsString(ItemsOf(GetAttr(o, k))[i])
        THEN Res(TypeErr, <<>>, o, NoRet)
        ELSE IF \E k \in Dom(data) : data[k] \in InstTokens \cup {"Mgr"}
        THEN Res(TypeErr, <<>>, o, NoRet)
        ELSE Res(OK, <<>>, o,
                 RetData([k \in Keys |-> IF data[k] = Absent THEN Absent
                                         ELSE dumped(k)]))

\* str(v).lower(), a string
LowerStr(v) ==
    CASE v = "True"  -> "true"
      [] v = "False" -> "false"
      [] v = "None"  -> "none"
      [] v = "i1"    -> "s1"
      [] OTHER       -> v

\* User._data_for_gitlab that leaves the Instance alone
UserDataForGitlabPure(o, extra, update) ==
    LET n == IF GetAttr(o, "confirm") # Absent
             THEN [o EXCEPT !.attrs["confirm"] = LowerStr(GetAttr(o, "confirm"))]
             ELSE o
    IN  [DataForGitlab(n, extra, FALSE) EXCEPT !.obj = o]

\* User._data_for_gitlab: confirm is stored as a lower-case string, then the
\* generic serialization, always of the create attributes
UserDataForGitlab(o, extra, update) ==
    LET n == IF GetAttr(o, "confirm") # Absent
             THEN [o EXCEPT !.attrs["confirm"] = LowerStr(GetAttr(o, "confirm"))]
             ELSE o
    IN  DataForGitlab(n, extra, FALSE)

RECURSIVE SpaceJoined(_)
SpaceJoined(s) ==
    IF Len(s) = 0 THEN ""
    ELSE IF Len(s) = 1 THEN Str(s[1])
    ELSE Str(s[1]) \o ", " \o SpaceJoined(Tail(s))

\* ProjectIssue._data_for_gitlab joins self.labels
JoinsLabels(o) ==
    /\ GetAttr(o, "labels") # Absent
    /\ GetAttr(o, "labels") # "None"
    /\ ~IsString(GetAttr(o, "labels"))

\* ", ".join(self.labels) raises
LabelsErr(o) ==
    /\ JoinsLabels(o)
    /\ \/ ~IsList(GetAttr(o, "labels"))
       \/ \E i \in 1..Len(ItemsOf(GetAttr(o, "labels"))) :
              ~IsString(ItemsOf(GetAttr(o, "labels"))[i])

\* the dict extra_parameters after ProjectIssue._data_for_gitlab wrote the
\* joined labels into it
IssueExtra(o, extra) ==
    IF JoinsLabels(o) /\ ~LabelsErr(o)
    THEN [extra EXCEPT !["labels"] = SpaceJoined(ItemsOf(GetAttr(o, "labels")))]
    ELSE extra

\* ProjectIssue._data_for_gitlab with a dict of its own for every call
IssueDataForGitlabFresh(o, extra, update) ==
    IF LabelsErr(o) THEN Res(TypeErr, <<>>, o, NoRet)
    ELSE DataForGitlab(o, IssueExtra(o, EmptyMap), FALSE)

\* ProjectIssue._data_for_gitlab: the joined labels go into extra_parameters,
\* then the generic serialization, always of the create attributes
IssueDataForGitlab(o, extra, update) ==
    IF LabelsErr(o) THEN Res(TypeErr, <<>>, o, NoRet)
    ELSE DataForGitlab(o, IssueExtra(o, extra), FALSE)

(***************************************************************************)
(* GitlabObject: as_dict and equality.                                     *)
(***************************************************************************)
\* k[0] == '_'
Private(k) == k = "_from_api"

\* as_dict: the __dict__ without the Managers and the private attributes
AsDict(o) ==
    [k \in Keys |-> IF o.attrs[k] = "Mgr" \/ Private(k) THEN Absent
                    ELSE o.attrs[k]]

\* dict.pop(k, None)
Pop(m, k) == [m EXCEPT ![k] = Absent]

\* an equality that compares the password of users as well
EqWithPassword(a, b) ==
    IF b.cls = a.cls THEN AsDict(a) = AsDict(b) ELSE FALSE

\* __eq__: GitlabObject.__eq__, and User.__eq__ for users
Eq(a, b) ==
    IF b.cls # a.cls THEN FALSE
    ELSE IF a.cls = "User"
    THEN Pop(AsDict(a), "password") = Pop(AsDict(b), "password")
    ELSE AsDict(a) = AsDict(b)

(***************************************************************************)
(* GitlabObject: the class-level list, get and create.                     *)
(***************************************************************************)
\* an Instance the transport builds from one item of a listing
Listed(cls, item) == Obj(cls, InitAttrs(Gl, cls, "True", item, EmptyMap))

ListDenied(cls) == ~Truthy(Descriptor(cls).canList)

\* list without the check of the URL template
ClsListAnyUrl(cls, kwargs, t) ==
    IF ListDenied(cls) THEN Res(NotImpl, <<>>, NoObj, NoRet)
    ELSE LET a == Transport(cls, kwargs, t)
             c == <<Call("list", cls, NoId, EmptyMap, kwargs, a)>>
         IN  IF ~a.ok THEN Res(TransportError("list"), c, NoObj, NoRet)
             ELSE Res(OK, c, NoObj,
                      RetList([i \in 1..Len(a.items) |-> Listed(cls, a.items[i])]))

\* GitlabObject.list
ClsList(cls, kwargs, t) ==
    IF ListDenied(cls) THEN Res(NotImpl, <<>>, NoObj, NoRet)
    ELSE IF ~Descriptor(cls).url THEN Res(NotImpl, <<>>, NoObj, NoRet)
    ELSE LET a == Transport(cls, kwargs, t)
             c == <<Call("list", cls, NoId, EmptyMap, kwargs, a)>>
         IN  IF ~a.ok THEN Res(TransportError("list"), c, NoObj, NoRet)
             ELSE Res(OK, c, NoObj,
                      RetList([i \in 1..Len(a.items) |-> Listed(cls, a.items[i])]))

\* obj_id == id, without the conversion to strings
IdMatchesExact(v, id) == v = id

\* str(obj_id) == str(id)
IdMatches(v, id) == Str(v) = Str(id)

\* the scan of GitlabObject.get over a listing, from position i on: the
\* outcome and, when found, the position
RECURSIVE Scan(_, _, _)
Scan(items, id, i) ==
    IF i > Len(items) THEN [outcome |-> NotFound, at |-> 0]
    ELSE LET v == items[i].attrs[Descriptor(items[i].cls).idAttr]
         IN  IF v = Absent THEN [outcome |-> AttrErr, at |-> 0]
             ELSE IF IdMatches(v, id) THEN [outcome |-> OK, at |-> i]
             ELSE Scan(items, id, i + 1)

\* a get that reports a failed fetch or listing as "not found"
ClsGetSwallows(cls, id, kwargs, t) ==
    LET canGet == Descriptor(cls).canGet
    IN  IF canGet = "False" THEN Res(NotImpl, <<>>, NoObj, NoRet)
        ELSE IF canGet = "True" THEN
            LET r == InitFromId(cls, id, kwargs, t)
            IN  IF r.outcome = OK THEN Res(OK, r.calls, NoObj, RetObj(r.obj))
                ELSE IF r.outcome = NotImpl THEN r
                ELSE Res(NotFound, r.calls, NoObj, NoRet)
        ELSE
            LET l == ClsList(cls, kwargs, t)
                s == Scan(l.ret.items, id, 1)
            IN  IF l.outcome = NotImpl THEN l
                ELSE IF l.outcome # OK THEN Res(NotFound, l.calls, NoObj, NoRet)
                ELSE IF s.outcome = OK
                     THEN Res(OK, l.calls, NoObj, RetObj(l.ret.items[s.at]))
                     ELSE Res(s.outcome, l.calls, NoObj, NoRet)

\* GitlabObject.get
ClsGet(cls, id, kwargs, t) ==
    LET canGet == Descriptor(cls).canGet
    IN  IF canGet = "False" THEN Res(NotImpl, <<>>, NoObj, NoRet)
        ELSE IF canGet = "True" THEN
            LET r == InitFromId(cls, id, kwargs, t)
            IN  IF r.outcome = OK THEN Res(OK, r.calls, NoObj, RetObj(r.obj))
                ELSE r
        ELSE
            LET l == ClsList(cls, kwargs, t)
                s == Scan(l.ret.items, id, 1)
            IN  IF l.outcome # OK THEN l
                ELSE IF s.outcome = OK
                     THEN Res(OK, l.calls, NoObj, RetObj(l.ret.items[s.at]))
                     ELSE Res(s.outcome, l.calls, NoObj, NoRet)

\* GitlabObject._get_list_or_object (getListWhenNoId is True on the modelled
\* types)
ClsGetListOrObject(cls, id, kwargs, t) ==
    IF id = "None" THEN ClsList(cls, kwargs, t) ELSE ClsGet(cls, id, kwargs, t)

\* User.Key, the deprecated accessor: user_id=self.id beside **kwargs
UserKeyOf(o, id, kwargs, t) ==
    IF kwargs["user_id"] # Absent THEN Res(TypeErr, <<>>, NoObj, NoRet)
    ELSE ClsGetListOrObject("UserKey", id,
                            [kwargs EXCEPT !["user_id"] = GetAttr(o, "id")], t)

\* GitlabObject.create
ClsCreate(cls, data, kwargs, t) ==
    IF ~Truthy(Descriptor(cls).canCreate) THEN Res(NotImpl, <<>>, NoObj, NoRet)
    ELSE LET o == InitFromDict(cls, data, kwargs).obj
             s == SaveObj(o, EmptyMap, t)
         IN  IF s.outcome = OK THEN Res(OK, s.calls, NoObj, RetObj(s.obj))
             ELSE Res(s.outcome, s.calls, NoObj, NoRet)

(***************************************************************************)
(* BaseManager.  A Manager is its obj_cls, its parent Instance (NoObj for  *)
(* parent=None) and its (child attribute, parent attribute) links.         *)
(***************************************************************************)
Manager(cls, parent, args) == [cls |-> cls, parent |-> parent, args |-> args]

\* the parent attribute as it was when the Manager was constructed
ParentValueAtBuild(parent, parent_attr) == parent.built[parent_attr]

\* getattr(self.parent, parent_attr)
ParentValue(parent, parent_attr) == GetAttr(parent, parent_attr)

\* the parent attribute linked to the child attribute k
LinkOf(margs, k) == (CHOOSE p \in margs : p[1] = k)[2]

\* _set_parent_args with the parent's value winning over the caller's
SetParentArgsParentWins(m, kwargs) ==
    IF m.parent = NoObj THEN [err |-> FALSE, args |-> kwargs]
    ELSE IF \E p \in m.args : ParentValue(m.parent, p[2]) = Absent
    THEN [err |-> TRUE, args |-> kwargs]
    ELSE [err |-> FALSE,
          args |-> [k \in Keys |->
                      IF \E p \in m.args : p[1] = k
                      THEN ParentValue(m.parent, LinkOf(m.args, k))
                      ELSE kwargs[k]]]

\* _set_parent_args: kwargs, with each linked attribute defaulted from the
\* parent; getattr is evaluated for every link, supplied by the caller or not
SetParentArgs(m, kwargs) ==
    IF m.parent = NoObj THEN [err |-> FALSE, args |-> kwargs]
    ELSE IF \E p \in m.args : ParentValue(m.parent, p[2]) = Absent
    THEN [err |-> TRUE, args |-> kwargs]
    ELSE [err |-> FALSE,
          args |-> [k \in Keys |->
                      IF kwargs[k] # Absent THEN kwargs[k]
                      ELSE IF \E p \in m.args : p[1] = k
                      THEN ParentValue(m.parent, LinkOf(m.args, k))
                      ELSE Absent]]

\* BaseManager.get
MgrGet(m, id, kwargs, t) ==
    LET a == SetParentArgs(m, kwargs)
    IN  IF a.err THEN Res(AttrErr, <<>>, NoObj, NoRet)
        ELSE IF ~Truthy(Descriptor(m.cls).canGet) THEN Res(NotImpl, <<>>, NoObj, NoRet)
        ELSE ClsGet(m.cls, id, a.args, t)

\* BaseManager.list
MgrList(m, kwargs, t) ==
    LET a == SetParentArgs(m, kwargs)
    IN  IF a.err THEN Res(AttrErr, <<>>, NoObj, NoRet)
        ELSE IF ~Truthy(Descriptor(m.cls).canList) THEN Res(NotImpl, <<>>, NoObj, NoRet)
        ELSE ClsList(m.cls, a.args, t)

\* BaseManager.create
MgrCreate(m, data, kwargs, t) ==
    LET a == SetParentArgs(m, kwargs)
    IN  IF a.err THEN Res(AttrErr, <<>>, NoObj, NoRet)
        ELSE IF ~Truthy(Descriptor(m.cls).canCreate) THEN Res(NotImpl, <<>>, NoObj, NoRet)
        ELSE ClsCreate(m.cls, data, a.args, t)

\* a delete that fetches the object and deletes the Instance
MgrDeleteViaFetch(m, id, kwargs, t) ==
    LET a == SetParentArgs(m, kwargs)
        g == InitFromId(m.cls, id, a.args, Answer(TRUE, M1("id", id), <<>>))
        d == DeleteObj(g.obj, EmptyMap, t)
    IN  IF a.err THEN Res(AttrErr, <<>>, NoObj, NoRet)
        ELSE IF ~Truthy(Descriptor(m.cls).canDelete) THEN Res(NotImpl, <<>>, NoObj, NoRet)
        ELSE IF g.outcome # OK THEN g
        ELSE Res(d.outcome, g.calls \o d.calls, NoObj, NoRet)

\* BaseManager.delete
MgrDelete(m, id, kwargs, t) ==
    LET a == SetParentArgs(m, kwargs)
    IN  IF a.err THEN Res(AttrErr, <<>>, NoObj, NoRet)
        ELSE IF ~Truthy(Descriptor(m.cls).canDelete) THEN Res(NotImpl, <<>>, NoObj, NoRet)
        ELSE LET x == Transport(m.cls, a.args, t)
                 c == <<Call("delete", m.cls, id, EmptyMap, a.args, x)>>
             IN  Res(IF x.ok THEN OK ELSE TransportError("delete"), c, NoObj, NoRet)


(***************************************************************************)
(* Inputs: what callers pass and what the transport answers.               *)
(***************************************************************************)
\* response bodies of the API: its own field names
ApiResponses ==
    {M2("id", "i1", "name", "sa"), M2("id", "s1", "name", "s1"), M1("name", "sa")}

\* a body with keys that are also names of the instance machinery
ArbitraryResponses ==
    {[EmptyMap EXCEPT !["id"] = "i1", !["canUpdate"] = "True", !["canDelete"] = "True",
                      !["keys"] = "sa", !["notes"] = "sa"]}

Responses ==
    IF arbitrary THEN ApiResponses \cup ArbitraryResponses ELSE ApiResponses

\* bodies with fields whose values are mappings, sequences of mappings, null
NestedResponses ==
    {[EmptyMap EXCEPT !["id"] = "i1", !["author"] = "d1",
                      !["owner"] = ListToken(<<"d1", "d2">>),
                      !["release"] = "None"],
     [EmptyMap EXCEPT !["id"] = "i1", !["author"] = ListToken(<<"d1", "d2">>),
                      !["owner"] = "d2", !["release"] = "d1"]}

\* a body with the fields the methods of single types read and assign
VerbResponses ==
    {[EmptyMap EXCEPT !["id"] = "i1", !["name"] = "sa", !["project_id"] = "i1",
                      !["protected"] = "False", !["state"] = "active"]}

\* the bodies a get, create or update is answered with
Bodies ==
    CASE scope = "nested" -> Responses \cup NestedResponses
      [] scope = "verbs"  -> Responses \cup VerbResponses
      [] OTHER            -> Responses

\* the data dict a caller constructs an Instance from
ApiData == {EmptyMap, M1("name", "sa"), M1("project_id", "i1")}

\* a data dict with the attributes a tag is created from, one of them a list
TagData ==
    [EmptyMap EXCEPT !["tag_name"] = "sa", !["ref"] = "s1",
                     !["message"] = ListToken(<<"sa", "s1">>)]

UserData ==
    CASE scope = "values" -> ApiData \cup {TagData, M2("name", "sa", "password", "sa")}
      [] scope = "nested" -> {EmptyMap, M1("name", "sa"),
                              M2("name", "sa", "release", "None")}
      [] scope = "verbs"  -> {M1("name", "sa"), M1("project_id", "i1"),
                              M2("project_id", "i1", "name", "sa")}
      [] scope = "member" -> {M2("group_id", "i1", "access_level", "i1"),
                              [EmptyMap EXCEPT !["group_id"] = "i1", !["id"] = "i1",
                                               !["user_id"] = "i1"],
                              M2("group_id", "i1", "name", "sa")}
      [] scope = "serial" -> {M2("project_id", "i1", "description", "sa"),
                              M2("project_id", "i1", "labels", "sa"),
                              M2("project_id", "i1", "labels", "None"),
                              M2("project_id", "i1", "labels",
                                 ListToken(<<"sa", "s1">>)),
                              M2("project_id", "i1", "confirm", "True"),
                              M2("project_id", "i1", "confirm", "false"),
                              TagData}
      [] OTHER             -> ApiData

\* the types the caller constructs, gets, lists and creates
Types ==
    CASE scope = "values" -> {"User", "Issue", "ProjectTag", "Project"}
      [] scope = "nested" -> {"User", "ProjectIssue", "ProjectTag", "Project"}
      [] scope = "verbs"  -> {"User", "ProjectBranch", "ProjectMergeRequest"}
      [] scope = "chain"  -> {"Project"}
      [] scope = "fromlist" -> {"User", "UserKey", "Issue", "ProjectTag"}
      [] scope = "member" -> {"GroupMember", "User"}
      [] scope = "serial" -> {"User", "ProjectIssue", "ProjectTag"}
      [] OTHER             -> Classes

\* **kwargs of a call
KwargSets == {EmptyMap, M1("user_id", "i2"), M2("project_id", "i2", "name", "s1")}

\* the Instances a caller compares the Instance i with: i itself, i after
\* an assignment to one attribute, an Instance constructed from a dict
Others(i) ==
    {i, [i EXCEPT !.attrs["password"] = "s1"], [i EXCEPT !.attrs["name"] = "s1"],
     [i EXCEPT !.attrs["_from_api"] = "True"]}
    \cup {Obj(c, InitAttrs(Gl, c, "False", d, EmptyMap)) :
             c \in {"User", "Issue"}, d \in ApiData}

\* the id argument of get and delete: None, an int, a string
Ids == {"None", "i1", "sa"}

\* callers of the API supply the attributes the URL template of the type needs
WellFormed(cls, data, kwargs) == UrlResolvable(cls, Overlay(data, kwargs))

Listings == UNION {[1..n -> Responses] : n \in 0..MaxList}

BodyAnswers == {Answer(TRUE, b, <<>>) : b \in Bodies} \cup {Failure}
ListAnswers == {Answer(TRUE, EmptyMap, l) : l \in Listings} \cup {Failure}
DoneAnswers == {Answer(TRUE, EmptyMap, <<>>), Failure}

\* the responses to the raw requests of star, unstar and
\* set_release_description
StarAnswers ==
    {Raw(201, b) : b \in Bodies} \cup {Raw(304, EmptyMap), Raw(404, EmptyMap)}
UnstarAnswers ==
    {Raw(200, b) : b \in Bodies} \cup {Raw(304, EmptyMap), Raw(404, EmptyMap)}
ReleaseAnswers ==
    {Raw(st, MapOf(d)) : st \in {200, 201}, d \in Dicts} \cup {Raw(404, EmptyMap)}

\* the responses to the raw PUT of block, unblock, protect and unprotect
PutAnswers == {Raw(200, EmptyMap), Raw(404, EmptyMap)}

\* the responses to the raw PUT of merge and cancel_merge_when_build_succeeds
MergeAnswers ==
    {Raw(200, b) : b \in Bodies}
    \cup {Raw(st, EmptyMap) : st \in {401, 404, 405, 406}}

\* **kwargs of a raw request
RawKwargs == {EmptyMap, M1("sudo", "sa")}

\* the answers the transport may give to a get of cls: a body for a direct
\* fetch, a listing for a type fetched from its listing
GetAnswers(cls) ==
    IF Descriptor(cls).canGet = "from_list" THEN ListAnswers ELSE BodyAnswers

(***************************************************************************)
(* The state machine.  The program is sequential: an operation runs to its *)
(* end (op, calls, outcome, ret describe it), returns to the caller, and   *)
(* only then the next one starts.  Class-level calls and top-level         *)
(* Managers neither read nor change an Instance: they are explored from    *)
(* the state in which the caller holds none.                               *)
(***************************************************************************)
NoMgr == Manager("none", NoObj, {})

\* the operation invoked: its name, the type it is invoked on, its id / data
\* / kwargs arguments, the Manager it goes through, the receiver before it
Op(name, cls, id, data, kwargs, mgr, pre) ==
    [name |-> name, cls |-> cls, id |-> id, data |-> data, kwargs |-> kwargs,
     mgr |-> mgr, pre |-> pre, other |-> NoObj, update |-> FALSE,
     defaulted |-> FALSE]

\* an operation that takes a second Instance as its argument
OpOn(name, pre, other) ==
    [Op(name, pre.cls, NoId, EmptyMap, EmptyMap, NoMgr, pre) EXCEPT !.other = other]

Idle == Op("idle", "none", NoId, EmptyMap, EmptyMap, NoMgr, NoObj)

FinishWith(o, r, i, d) ==
    /\ op' = o
    /\ calls' = r.calls
    /\ outcome' = r.outcome
    /\ ret' = r.ret
    /\ inst' = i
    /\ extraDefault' = d
    /\ UNCHANGED <<arbitrary, scope>>

Finish(o, r, i) == FinishWith(o, r, i, extraDefault)

Returned(i) == Finish(Idle, Res(OK, <<>>, NoObj, NoRet), i)

\* the child Managers the Instance holds
ChildManagers ==
    {Manager(m.cls, inst, m.args) :
        m \in {x \in Descriptor(inst.cls).managers : inst.attrs[x.var] = "Mgr"}}

\* the Managers a caller can reach: the child Managers of the Instance it
\* holds, or the top-level one of each type (parent=None)
Managers ==
    IF inst = NoObj THEN {Manager(c, NoObj, {}) : c \in ManagedClasses}
    ELSE ChildManagers

Init ==
    /\ inst = NoObj
    /\ op = Idle
    /\ calls = <<>>
    /\ outcome = OK
    /\ ret = NoRet
    /\ arbitrary = FALSE
    /\ extraDefault = EmptyMap
    /\ scope = "core"

InitArbitrary ==
    /\ inst = NoObj
    /\ op = Idle
    /\ calls = <<>>
    /\ outcome = OK
    /\ ret = NoRet
    /\ arbitrary \in BOOLEAN
    /\ extraDefault = EmptyMap
    /\ scope = "core"

\* the serialization and the comparison of Instances
InitValues ==
    /\ inst = NoObj
    /\ op = Idle
    /\ calls = <<>>
    /\ outcome = OK
    /\ ret = NoRet
    /\ arbitrary = FALSE
    /\ extraDefault = EmptyMap
    /\ scope = "values"

\* payloads with nested values, and the methods of Project and ProjectTag
InitNested ==
    /\ inst = NoObj
    /\ op = Idle
    /\ calls = <<>>
    /\ outcome = OK
    /\ ret = NoRet
    /\ arbitrary = FALSE
    /\ extraDefault = EmptyMap
    /\ scope = "nested"

\* the methods of User, ProjectBranch and ProjectMergeRequest
InitVerbs ==
    /\ inst = NoObj
    /\ op = Idle
    /\ calls = <<>>
    /\ outcome = OK
    /\ ret = NoRet
    /\ arbitrary = FALSE
    /\ extraDefault = EmptyMap
    /\ scope = "verbs"

\* a project, the Instances got and created through its Managers, and the
\* requests through their Managers
InitChain ==
    /\ inst = NoObj
    /\ op = Idle
    /\ calls = <<>>
    /\ outcome = OK
    /\ ret = NoRet
    /\ arbitrary = FALSE
    /\ extraDefault = EmptyMap
    /\ scope = "chain"

\* serialization by the generic _data_for_gitlab and by its overrides
InitSerial ==
    /\ inst = NoObj
    /\ op = Idle
    /\ calls = <<>>
    /\ outcome = OK
    /\ ret = NoRet
    /\ arbitrary = FALSE
    /\ extraDefault = EmptyMap
    /\ scope = "serial"

\* save() of a group member and of a user
InitMember ==
    /\ inst = NoObj
    /\ op = Idle
    /\ calls = <<>>
    /\ outcome = OK
    /\ ret = NoRet
    /\ arbitrary = FALSE
    /\ extraDefault = EmptyMap
    /\ scope = "member"

\* the ways to retrieve an Instance of a type fetched from its listing
InitFromList ==
    /\ inst = NoObj
    /\ op = Idle
    /\ calls = <<>>
    /\ outcome = OK
    /\ ret = NoRet
    /\ arbitrary = FALSE
    /\ extraDefault = EmptyMap
    /\ scope = "fromlist"

\* cls(gl, data, **kwargs) with data a dict
ConstructFromDict ==
    /\ op = Idle /\ inst = NoObj
    /\ \E cls \in Types, data \in UserData, kwargs \in KwargSets :
           /\ WellFormed(cls, data, kwargs)
           /\ LET r == InitFromDict(cls, data, kwargs)
              IN  Finish(Op("init", cls, NoId, data, kwargs, NoMgr, NoObj),
                         [r EXCEPT !.ret = RetObj(r.obj)], inst)

\* cls(gl, id, **kwargs) with id None, an int or a string
ConstructFromId ==
    /\ op = Idle /\ inst = NoObj
    /\ \E cls \in Types, id \in Ids, kwargs \in KwargSets, t \in BodyAnswers :
           /\ LET r == InitFromId(cls, id, kwargs, t)
              IN  Finish(Op("init", cls, id, EmptyMap, kwargs, NoMgr, NoObj),
                         IF r.outcome = OK THEN [r EXCEPT !.ret = RetObj(r.obj)] ELSE r,
                         inst)

\* cls.get(gl, id, **kwargs)
ClassGet ==
    /\ op = Idle /\ inst = NoObj
    /\ \E cls \in Types, id \in Ids, kwargs \in KwargSets :
           \E t \in GetAnswers(cls) :
               /\ Finish(Op("get", cls, id, EmptyMap, kwargs, NoMgr, NoObj),
                         ClsGet(cls, id, kwargs, t), inst)

\* cls.list(gl, **kwargs)
ClassList ==
    /\ op = Idle /\ inst = NoObj
    /\ \E cls \in Types, kwargs \in KwargSets, t \in ListAnswers :
           /\ Finish(Op("list", cls, NoId, EmptyMap, kwargs, NoMgr, NoObj),
                     ClsList(cls, kwargs, t), inst)

\* cls.create(gl, data, **kwargs)
ClassCreate ==
    /\ op = Idle /\ inst = NoObj
    /\ \E cls \in Types, data \in UserData, kwargs \in KwargSets, t \in BodyAnswers :
           /\ WellFormed(cls, data, kwargs)
           /\ Finish(Op("create", cls, NoId, data, kwargs, NoMgr, NoObj),
                     ClsCreate(cls, data, kwargs, t), inst)

\* manager.get(id, **kwargs)
ManagerGet ==
    /\ op = Idle
    /\ \E m \in Managers, id \in Ids, kwargs \in KwargSets :
           \E t \in GetAnswers(m.cls) :
               /\ Finish(Op("get", m.cls, id, EmptyMap, kwargs, m, NoObj),
                         MgrGet(m, id, kwargs, t), inst)

\* manager.list(**kwargs)
ManagerList ==
    /\ op = Idle
    /\ \E m \in Managers, kwargs \in KwargSets, t \in ListAnswers :
           /\ Finish(Op("list", m.cls, NoId, EmptyMap, kwargs, m, NoObj),
                     MgrList(m, kwargs, t), inst)

\* manager.create(data, **kwargs)
ManagerCreate ==
    /\ op = Idle
    /\ \E m \in Managers, data \in UserData, kwargs \in KwargSets, t \in BodyAnswers :
           /\ WellFormed(m.cls, data, SetParentArgs(m, kwargs).args)
           /\ Finish(Op("create", m.cls, NoId, data, kwargs, m, NoObj),
                     MgrCreate(m, data, kwargs, t), inst)

\* manager.delete(id, **kwargs)
ManagerDelete ==
    /\ op = Idle
    /\ \E m \in Managers, id \in Ids, kwargs \in KwargSets, t \in DoneAnswers :
           /\ Finish(Op("delete", m.cls, id, EmptyMap, kwargs, m, NoObj),
                     MgrDelete(m, id, kwargs, t), inst)

\* obj.save(**kwargs)
Save ==
    /\ op = Idle /\ inst # NoObj
    /\ \E kwargs \in KwargSets, t \in BodyAnswers :
           /\ LET r == SaveObj(inst, kwargs, t)
              IN  Finish(Op("save", inst.cls, NoId, EmptyMap, kwargs, NoMgr, inst),
                         r, r.obj)

\* obj.delete(**kwargs)
Delete ==
    /\ op = Idle /\ inst # NoObj
    /\ \E kwargs \in KwargSets, t \in DoneAnswers :
           /\ LET r == DeleteObj(inst, kwargs, t)
              IN  Finish(Op("delete", inst.cls, NoId, EmptyMap, kwargs, NoMgr, inst),
                         r, r.obj)

\* obj.id = v by the caller
SetAttr ==
    \E v \in {"i1", "i2"} :
        /\ op = Idle /\ inst # NoObj
        /\ Returned([inst EXCEPT !.attrs["id"] = v])

\* obj == other
Compare ==
    /\ op = Idle /\ inst # NoObj
    /\ \E other \in Others(inst) :
           Finish(OpOn("eq", inst, other),
                  Res(OK, <<>>, inst,
                      RetVal(IF Eq(inst, other) THEN "True" ELSE "False")),
                  inst)

\* obj._data_for_gitlab(extra_parameters, update), on the types that do not
\* override it
Serialize ==
    /\ op = Idle /\ inst # NoObj /\ inst.cls \notin {"User", "ProjectIssue"}
    /\ \E extra \in KwargSets, update \in BOOLEAN :
           LET r == DataForGitlab(inst, extra, update)
           IN  Finish([Op("serialize", inst.cls, NoId, EmptyMap, extra, NoMgr, inst)
                          EXCEPT !.update = update],
                      r, r.obj)

\* user._data_for_gitlab(extra_parameters, update)
SerializeUser ==
    /\ op = Idle /\ inst.cls = "User"
    /\ \E extra \in KwargSets, update \in BOOLEAN :
           LET r == UserDataForGitlab(inst, extra, update)
           IN  Finish([Op("serialize", inst.cls, NoId, EmptyMap, extra, NoMgr, inst)
                          EXCEPT !.update = update],
                      r, r.obj)

\* issue._data_for_gitlab(update=update): extra_parameters is the default
SerializeIssue ==
    /\ op = Idle /\ inst.cls = "ProjectIssue"
    /\ \E update \in BOOLEAN :
           LET r == IssueDataForGitlab(inst, extraDefault, update)
           IN  FinishWith([Op("serialize", inst.cls, NoId, EmptyMap, EmptyMap,
                              NoMgr, inst)
                              EXCEPT !.update = update, !.defaulted = TRUE],
                          r, r.obj,
                          IF r.outcome = OK THEN IssueExtra(inst, extraDefault)
                          ELSE extraDefault)

\* issue._data_for_gitlab(extra_parameters, update) with a dict of the caller
SerializeIssueWith ==
    /\ op = Idle /\ inst.cls = "ProjectIssue"
    /\ \E extra \in KwargSets, update \in BOOLEAN :
           LET r == IssueDataForGitlab(inst, extra, update)
           IN  Finish([Op("serialize", inst.cls, NoId, EmptyMap, extra, NoMgr, inst)
                          EXCEPT !.update = update],
                      r, r.obj)

\* user.Key(id, **kwargs)
KeyAccessor ==
    /\ op = Idle /\ inst.cls = "User"
    /\ \E id \in Ids, kwargs \in KwargSets, t \in ListAnswers :
           Finish(Op("Key", "UserKey", id, EmptyMap, kwargs, NoMgr, inst),
                  UserKeyOf(inst, id, kwargs, t), inst)

\* project.star()
Star ==
    /\ op = Idle /\ inst.cls = "Project"
    /\ \E r \in StarAnswers :
           Finish(Op("star", inst.cls, NoId, EmptyMap, EmptyMap, NoMgr, inst),
                  StarObj(inst, r), inst)

\* project.unstar()
Unstar ==
    /\ op = Idle /\ inst.cls = "Project"
    /\ \E r \in UnstarAnswers :
           Finish(Op("unstar", inst.cls, NoId, EmptyMap, EmptyMap, NoMgr, inst),
                  UnstarObj(inst, r), inst)

\* tag.set_release_description(description)
SetRelease ==
    /\ op = Idle /\ inst.cls = "ProjectTag"
    /\ \E r \in ReleaseAnswers :
           LET x == SetReleaseDescription(inst, "sa", r)
           IN  Finish(Op("set_release_description", inst.cls, NoId, EmptyMap,
                         EmptyMap, NoMgr, inst),
                      x, x.obj)

\* user.block(**kwargs)
Block ==
    /\ op = Idle /\ inst.cls = "User"
    /\ \E kwargs \in RawKwargs, r \in PutAnswers :
           LET x == BlockObj(inst, kwargs, r)
           IN  Finish(Op("block", inst.cls, NoId, EmptyMap, kwargs, NoMgr, inst),
                      x, x.obj)

\* user.unblock(**kwargs)
Unblock ==
    /\ op = Idle /\ inst.cls = "User"
    /\ \E kwargs \in RawKwargs, r \in PutAnswers :
           LET x == UnblockObj(inst, kwargs, r)
           IN  Finish(Op("unblock", inst.cls, NoId, EmptyMap, kwargs, NoMgr, inst),
                      x, x.obj)

\* branch.protect(protect, **kwargs)
Protect ==
    /\ op = Idle /\ inst.cls = "ProjectBranch"
    /\ \E protect \in {"True", "False"}, kwargs \in RawKwargs, r \in PutAnswers :
           LET x == ProtectObj(inst, protect, kwargs, r)
           IN  Finish(Op("protect", inst.cls, NoId, M1("protected", protect),
                         kwargs, NoMgr, inst),
                      x, x.obj)

\* branch.unprotect(**kwargs)
Unprotect ==
    /\ op = Idle /\ inst.cls = "ProjectBranch"
    /\ \E kwargs \in RawKwargs, r \in PutAnswers :
           LET x == UnprotectObj(inst, kwargs, r)
           IN  Finish(Op("unprotect", inst.cls, NoId, EmptyMap, kwargs, NoMgr, inst),
                      x, x.obj)

\* mr.merge(merge_commit_message, should_remove_source_branch,
\* merged_when_build_succeeds, **kwargs)
Merge ==
    /\ op = Idle /\ inst.cls = "ProjectMergeRequest"
    /\ \E message \in {"None", "sa"}, remove \in {"False", "True"},
          when \in {"False", "True"}, kwargs \in RawKwargs, r \in MergeAnswers :
           Finish(Op("merge", inst.cls, NoId, MergeData(message, remove, when),
                     kwargs, NoMgr, inst),
                  MergeObj(inst, message, remove, when, kwargs, r), inst)

\* mr.cancel_merge_when_build_succeeds(**kwargs)
CancelMerge ==
    /\ op = Idle /\ inst.cls = "ProjectMergeRequest"
    /\ \E kwargs \in RawKwargs, r \in MergeAnswers :
           Finish(Op("cancel_merge_when_build_succeeds", inst.cls, NoId, EmptyMap,
                     kwargs, NoMgr, inst),
                  CancelMergeObj(inst, kwargs, r), inst)

\* the operation has returned; the caller goes on with the Instance it holds
Continue ==
    /\ op # Idle
    /\ Returned(inst)

\* the operation has returned an Instance; the caller goes on with that one
Keep ==
    /\ op # Idle /\ ret.kind = "obj"
    /\ Returned(ret.obj)

\* the caller lets go of the Instance it holds
Release ==
    /\ op = Idle /\ inst # NoObj
    /\ Returned(NoObj)

Next ==
    \/ ConstructFromDict
    \/ ConstructFromId
    \/ ClassGet
    \/ ClassList
    \/ ClassCreate
    \/ ManagerGet
    \/ ManagerList
    \/ ManagerCreate
    \/ ManagerDelete
    \/ Save
    \/ Delete
    \/ SetAttr
    \/ Continue
    \/ Keep
    \/ Release

Spec == Init /\ [][Next]_vars

SpecArbitrary == InitArbitrary /\ [][Next]_vars

NextValues ==
    \/ ConstructFromDict
    \/ ConstructFromId
    \/ SetAttr
    \/ Compare
    \/ Serialize
    \/ Continue
    \/ Keep
    \/ Release

SpecValues == InitValues /\ [][NextValues]_vars

NextNested ==
    \/ ConstructFromDict
    \/ ConstructFromId
    \/ ClassGet
    \/ ClassCreate
    \/ Save
    \/ Delete
    \/ Star
    \/ Unstar
    \/ SetRelease
    \/ Continue
    \/ Keep
    \/ Release

SpecNested == InitNested /\ [][NextNested]_vars

NextVerbs ==
    \/ ConstructFromDict
    \/ ConstructFromId
    \/ Block
    \/ Unblock
    \/ Protect
    \/ Unprotect
    \/ Merge
    \/ CancelMerge
    \/ Continue
    \/ Keep
    \/ Release

SpecVerbs == InitVerbs /\ [][NextVerbs]_vars

NextChain ==
    \/ ConstructFromDict
    \/ ConstructFromId
    \/ ManagerGet
    \/ ManagerCreate
    \/ SetAttr
    \/ Continue
    \/ Keep
    \/ Release

SpecChain == InitChain /\ [][NextChain]_vars

NextFromList ==
    \/ ConstructFromDict
    \/ ConstructFromId
    \/ ClassGet
    \/ ManagerGet
    \/ KeyAccessor
    \/ Continue
    \/ Keep
    \/ Release

SpecFromList == InitFromList /\ [][NextFromList]_vars

NextMember ==
    \/ ConstructFromDict
    \/ ClassCreate
    \/ Save
    \/ SetAttr
    \/ Continue
    \/ Keep
    \/ Release

SpecMember == InitMember /\ [][NextMember]_vars

NextSerial ==
    \/ ConstructFromDict
    \/ Serialize
    \/ SerializeUser
    \/ SerializeIssue
    \/ SerializeIssueWith
    \/ Continue
    \/ Keep
    \/ Release

SpecSerial == InitSerial /\ [][NextSerial]_vars

(***************************************************************************)
(* Properties.                                                             *)
(***************************************************************************)
\* the operation went through a Manager / through a child Manager
ViaManager == op.mgr # NoMgr
ViaChildManager == op.mgr # NoMgr /\ op.mgr.parent # NoObj

\* the permission flag of the type that governs the operation invoked: canGet
\* for get and for a fetching construction, canCreate or canUpdate for save
\* by the origin flag at the call, "True" for an operation no flag governs
Governing ==
    CASE op.name = "get"    -> Descriptor(op.cls).canGet
      [] op.name = "init"   -> IF op.id = NoId THEN "True" ELSE Descriptor(op.cls).canGet
      [] op.name = "list"   -> Descriptor(op.cls).canList
      [] op.name = "create" -> Descriptor(op.cls).canCreate
      [] op.name = "save"   -> IF FromApi(op.pre) THEN Descriptor(op.cls).canUpdate
                               ELSE Descriptor(op.cls).canCreate
      [] op.name = "delete" -> Descriptor(op.cls).canDelete
      [] OTHER              -> "True"

\* C1: an operation whose permission flag is False on the type raises
\* NotImplementedError and issues no transport call, whatever payloads the
\* Instance was built and re-hydrated from.
C1_DeniedNeverReachesTransport ==
    Governing = "False" => outcome = NotImpl /\ calls = <<>>

\* C2: save() on an Instance whose type permits the routed operation issues
\* exactly one transport call: create when the Instance was local at the
\* call, update when it was server-hydrated.
C2_SaveRoutesOnce ==
    (op.name = "save" /\ Governing = "True") =>
        /\ Len(calls) = 1
        /\ calls[1].fn = (IF FromApi(op.pre) THEN "update" ELSE "create")

C2_Witness ==
    /\ op.name = "save" /\ Governing = "True"
    /\ ~FromApi(op.pre)
    /\ Len(calls) = 1 /\ calls[1].fn = "create" /\ outcome = OK

\* C3: the class-level create on a type that permits creation issues exactly
\* one transport call, a create; when it returns, the Instance returned is
\* server-hydrated and holds every field of the create response.
C3_ClassCreate ==
    (op.name = "create" /\ ~ViaManager /\ Descriptor(op.cls).canCreate = "True") =>
        /\ Len(calls) = 1
        /\ calls[1].fn = "create"
        /\ outcome = OK =>
              /\ ret.kind = "obj"
              /\ ret.obj.cls = op.cls
              /\ FromApi(ret.obj)
              /\ \A k \in Dom(calls[1].answer.body) :
                    ret.obj.attrs[k] = calls[1].answer.body[k]

C3_Witness ==
    /\ op.name = "create" /\ ~ViaManager /\ outcome = OK
    /\ Len(calls) = 1 /\ calls[1].fn = "create"
    /\ calls[1].answer.body["id"] = "i1" /\ ret.obj.attrs["id"] = "i1"
    /\ FromApi(ret.obj)

\* C4 as claimed: delete() on a local Instance of any type raises the
\* delete error and issues no transport call.
C4_LocalDeleteAlwaysDeleteError ==
    (op.name = "delete" /\ ~ViaManager /\ ~FromApi(op.pre)) =>
        outcome = NotYetCreated /\ calls = <<>>

\* C4 as amended: delete() on a local Instance issues no transport call; it
\* raises the delete error when the type permits deletion and
\* NotImplementedError when it does not.
C4_LocalDelete ==
    (op.name = "delete" /\ ~ViaManager /\ ~FromApi(op.pre)) =>
        /\ calls = <<>>
        /\ outcome = (IF Descriptor(op.cls).canDelete = "True" THEN NotYetCreated
                      ELSE NotImpl)
        /\ inst = op.pre

C4_Witness ==
    /\ op.name = "delete" /\ ~ViaManager /\ ~FromApi(op.pre)
    /\ Descriptor(op.cls).canDelete = "True"
    /\ outcome = NotYetCreated /\ calls = <<>>

\* C5: list() on a type whose canList is False or whose URL template is
\* undefined raises NotImplementedError without a transport call; on every
\* other type it issues exactly one gl.list, for the type and carrying the
\* caller's parameters, and returns what that call answers.
C5_List ==
    op.name = "list" =>
        IF Descriptor(op.cls).canList = "False" \/ ~Descriptor(op.cls).url
        THEN outcome = NotImpl /\ calls = <<>>
        ELSE /\ Len(calls) = 1
             /\ calls[1].fn = "list" /\ calls[1].cls = op.cls
             /\ \A k \in Dom(op.kwargs) : calls[1].args[k] = op.kwargs[k]
             /\ ~ViaManager => calls[1].args = op.kwargs
             /\ IF calls[1].answer.ok
                THEN /\ outcome = OK
                     /\ ret.kind = "list"
                     /\ Len(ret.items) = Len(calls[1].answer.items)
                     /\ \A i \in 1..Len(ret.items) :
                           /\ ret.items[i].cls = op.cls
                           /\ \A k \in Dom(calls[1].answer.items[i]) :
                                 ret.items[i].attrs[k] = calls[1].answer.items[i][k]
                ELSE outcome = TransportError("list")

C5_Witness ==
    /\ op.name = "list" /\ ~Descriptor(op.cls).url
    /\ outcome = NotImpl /\ calls = <<>>

\* the least element of a non-empty set of positions
First(S) == CHOOSE i \in S : \A j \in S : i <= j

\* C6: get on a type fetched from its listing issues one list call and
\* returns the first listed object whose identifier, as a string, equals the
\* id as a string; it raises "Object not found" exactly when the listing
\* was answered and no listed object matches.
C6_GetFromList ==
    (op.name = "get" /\ Descriptor(op.cls).canGet = "from_list") =>
        /\ Len(calls) = 1
        /\ calls[1].fn = "list" /\ calls[1].cls = op.cls
        /\ LET a == calls[1].answer
               listed(i) == Listed(op.cls, a.items[i])
               hits == {i \in 1..Len(a.items) :
                          Str(listed(i).attrs[Descriptor(op.cls).idAttr]) = Str(op.id)}
           IN  /\ (outcome = NotFound) <=> (a.ok /\ hits = {})
               /\ (outcome = OK) <=> (a.ok /\ hits # {})
               /\ outcome = OK => ret = RetObj(listed(First(hits)))
               /\ ~a.ok => outcome = TransportError("list")

C6_Witness ==
    /\ op.name = "get" /\ Descriptor(op.cls).canGet = "from_list"
    /\ op.id = "i1" /\ outcome = OK
    /\ Len(calls) = 1 /\ Len(calls[1].answer.items) = 2
    /\ calls[1].answer.items[1]["id"] = "s1"
    /\ calls[1].answer.items[2]["id"] = "i1"
    /\ ret.obj.attrs["id"] = "s1"

\* the parameters a request carries: the keyword arguments of the transport
\* call, or for a create the attributes of the Instance handed to gl.create
Carried ==
    IF calls[1].fn = "create" THEN calls[1].self ELSE calls[1].args

\* C7: the parent-derived parameters of a request made through a child
\* Manager are the parent's attribute values at the time of the call.
C7_ParentReadAtCall ==
    (ViaChildManager /\ calls # <<>>) =>
        \A p \in op.mgr.args :
            op.kwargs[p[1]] = Absent => Carried[p[1]] = inst.attrs[p[2]]

C7_Witness ==
    /\ ViaChildManager /\ calls # <<>>
    /\ \E p \in op.mgr.args :
          /\ op.kwargs[p[1]] = Absent
          /\ inst.attrs[p[2]] # inst.built[p[2]]
          /\ Carried[p[1]] = inst.attrs[p[2]]

\* C8: in the merged parameters every caller-supplied parameter keeps the
\* caller's value, also when the parent link names it; the parent's value
\* fills only the linked parameters the caller left out.
C8_CallerWins ==
    (ViaManager /\ calls # <<>>) =>
        /\ \A k \in Dom(op.kwargs) : Carried[k] = op.kwargs[k]
        /\ \A p \in op.mgr.args :
              op.kwargs[p[1]] = Absent => Carried[p[1]] = op.mgr.parent.attrs[p[2]]
        /\ calls[1].fn # "create" =>
              Dom(Carried) = Dom(op.kwargs) \cup {p[1] : p \in op.mgr.args}

C8_Witness ==
    /\ ViaChildManager /\ calls # <<>>
    /\ \E p \in op.mgr.args :
          /\ op.kwargs[p[1]] # Absent
          /\ op.kwargs[p[1]] # inst.attrs[p[2]]
          /\ Carried[p[1]] = op.kwargs[p[1]]

\* C9: Manager.delete(id) on a type that permits deletion issues exactly one
\* transport call, gl.delete with the type, the id and the merged
\* parameters; it fetches nothing and builds no Instance.
C9_ManagerDelete ==
    (op.name = "delete" /\ ViaManager /\ Descriptor(op.cls).canDelete = "True") =>
        /\ Len(calls) = 1
        /\ calls[1].fn = "delete" /\ calls[1].cls = op.cls /\ calls[1].id = op.id
        /\ calls[1].self = EmptyMap
        /\ calls[1].args =
              [k \in Keys |->
                 IF op.kwargs[k] # Absent THEN op.kwargs[k]
                 ELSE IF \E p \in op.mgr.args : p[1] = k
                 THEN op.mgr.parent.attrs[LinkOf(op.mgr.args, k)]
                 ELSE Absent]
        /\ ret = NoRet
        /\ inst = op.mgr.parent

C9_Witness ==
    /\ op.name = "delete" /\ ViaChildManager /\ outcome = OK
    /\ Len(calls) = 1 /\ calls[1].fn = "delete" /\ calls[1].id = "i1"

\* the payload an Instance was constructed from: the data dict, or the body
\* the fetch was answered with
ConstructedFrom == IF op.id = NoId THEN op.data ELSE calls[1].answer.body

\* C10 as claimed: after construction the attribute the type names as its
\* identifier (idAttr) is present.
C10_IdAttrPresent ==
    (op.name = "init" /\ outcome = OK) =>
        ret.obj.attrs[Descriptor(op.cls).idAttr] # Absent

\* C10 as amended: after construction the attribute "id" is present, None
\* when neither the payload nor the kwargs supplied it; an identifier
\* attribute of another name is present only when they supplied it.
C10_IdPresent ==
    (op.name = "init" /\ outcome = OK) =>
        LET supplied(k) == ConstructedFrom[k] # Absent \/ op.kwargs[k] # Absent
        IN  /\ ret.obj.attrs["id"] # Absent
            /\ ~supplied("id") => ret.obj.attrs["id"] = "None"
            /\ \A k \in {Descriptor(op.cls).idAttr} \ {"id"} :
                  (ret.obj.attrs[k] # Absent) <=> supplied(k)

C10_Witness ==
    /\ op.name = "init" /\ outcome = OK
    /\ Descriptor(op.cls).idAttr = "name"
    /\ ret.obj.attrs["name"] = Absent
    /\ ret.obj.attrs["id"] = "None"

\* the attribute k as the comparison sees it: a Manager counts as absent
Visible(o, k) == IF o.attrs[k] = "Mgr" THEN Absent ELSE o.attrs[k]

\* the attributes the comparison of two Instances of type cls looks at
Compared(cls) ==
    (Keys \ {"_from_api"}) \ (IF cls = "User" THEN {"password"} ELSE {})

\* C11: two Instances compare equal exactly when they have the same type and
\* agree on every attribute that is neither a Manager nor private, the
\* password left out for users; the comparison leaves the receiver as it was.
C11_Equality ==
    op.name = "eq" =>
        /\ (ret.val = "True") <=>
              /\ op.other.cls = op.pre.cls
              /\ \A k \in Compared(op.pre.cls) :
                    Visible(op.pre, k) = Visible(op.other, k)
        /\ ret.val \in {"True", "False"}
        /\ inst = op.pre

C11_Witness ==
    /\ op.name = "eq" /\ op.pre.cls = "User" /\ ret.val = "True"
    /\ op.pre.attrs["password"] # op.other.attrs["password"]
    /\ op.pre.attrs["keys"] = "Mgr"

\* C12: serializing an Instance for creation, without extra parameters,
\* gives a payload whose keys, the generic sudo / page / per_page apart, are
\* exactly the declared required-create and optional-create attributes the
\* Instance has; an undeclared attribute never appears, and each value is
\* the attribute's.
C12_CreatePayload ==
    (op.name = "serialize" /\ ~op.update /\ op.kwargs = EmptyMap /\ outcome = OK) =>
        LET d == Descriptor(op.cls)
            declared == d.requiredCreateAttrs \cup d.optionalCreateAttrs
        IN  /\ ret.kind = "data"
            /\ Dom(ret.data) \ GenericKeys = declared \cap Dom(op.pre.attrs)
            /\ \A k \in Dom(ret.data) :
                  ~IsList(op.pre.attrs[k]) => ret.data[k] = Json(op.pre.attrs[k])
            /\ inst = op.pre

C12_Witness ==
    /\ op.name = "serialize" /\ ~op.update /\ op.kwargs = EmptyMap /\ outcome = OK
    /\ op.cls = "ProjectTag"
    /\ {"tag_name", "ref", "message", "name", "project_id"} \subseteq Dom(op.pre.attrs)
    /\ Dom(ret.data) = {"tag_name", "ref", "message"}
    /\ ret.data["message"] = "\"a,1\""

\* the operation ended by hydrating an Instance from the body of a response
HydratedFromBody ==
    /\ outcome = OK /\ calls # <<>>
    /\ calls[Len(calls)].fn \in {"get", "create", "update"}
    /\ op.name \in {"init", "get", "create", "save"}

Body == calls[Len(calls)].answer.body

\* the Instance that was hydrated: the receiver of save, else the one returned
Target == IF op.name = "save" THEN inst ELSE ret.obj

\* C13: hydration from a response mapping m sets an attribute for every key
\* of m (a keyword argument of the construction overlays it afterwards):
\* with no nested type declared for the key the attribute is m[k] unchanged;
\* with one, a mapping becomes an Instance of the nested type hydrated from
\* that mapping, a sequence becomes the sequence of such Instances in the
\* same order, and null stays null.
C13_Hydration ==
    HydratedFromBody =>
        \A k \in Dom(Body) \ Dom(calls[Len(calls)].args) :
            LET v == Body[k]
                a == Target.attrs[k]
                nested(x, tok) ==
                    /\ tok \in InstTokens
                    /\ NestedInstance(tok).cls = NestedType(op.cls, k)
                    /\ \A j \in Dom(MapOf(x)) :
                          NestedInstance(tok).attrs[j] = MapOf(x)[j]
            IN  IF ~HasNestedType(op.cls, k) THEN a = v
                ELSE IF v = "None" THEN a = "None"
                ELSE IF v \in Dicts THEN nested(v, a)
                ELSE IF IsList(v)
                THEN /\ IsList(a)
                     /\ Len(ItemsOf(a)) = Len(ItemsOf(v))
                     /\ \A i \in 1..Len(ItemsOf(v)) :
                           nested(ItemsOf(v)[i], ItemsOf(a)[i])
                ELSE TRUE

C13_Witness ==
    /\ HydratedFromBody /\ op.name = "save" /\ op.cls = "Project"
    /\ Body["owner"] = ListToken(<<"d1", "d2">>)
    /\ IsList(inst.attrs["owner"])
    /\ NestedInstance(ItemsOf(inst.attrs["owner"])[2]).attrs["name"] = "sa"
    /\ inst.attrs["author"] = "d1"
    /\ inst.attrs["release"] = "None"

\* the Instances held as values of attributes of the Instance o
NestedIn(o) ==
    ({o.attrs[k] : k \in Keys} \cap InstTokens)
    \cup UNION {({ItemsOf(o.attrs[k])[i] : i \in 1..Len(ItemsOf(o.attrs[k]))}
                   \cap InstTokens) : k \in {j \in Keys : IsList(o.attrs[j])}}

\* C14: every Instance built from the payload of a server response is
\* server-hydrated: the Instance a fetch, a create or an update hydrates,
\* the Instances hydrated for its nested-type fields, and the new Instance
\* star() or unstar() builds from the response body.
C14_ServerBuiltIsServerHydrated ==
    /\ HydratedFromBody =>
          /\ FromApi(Target)
          /\ \A k \in Dom(Body) :
                (HasNestedType(op.cls, k) /\ Body[k] \in Dicts) =>
                    FromApi(NestedInstance(Target.attrs[k]))
    /\ (op.name \in {"star", "unstar"} /\ ret.kind = "obj") => FromApi(ret.obj)

ManagerGl(o) == o.built["gitlab"]

\* the Instance o, its child Managers and the Instances held in its
\* attributes all hold the connection object
OnConnection(o) ==
    /\ o.attrs["gitlab"] = Gl
    /\ ManagerGl(o) = Gl
    /\ \A tok \in NestedIn(o) :
          /\ NestedInstance(tok).attrs["gitlab"] = Gl
          /\ ManagerGl(NestedInstance(tok)) = Gl

\* C16: in every state every Instance (held, returned, listed, or the value
\* of an attribute) and every child Manager holds the connection object as
\* its connection reference.
C16_OneConnection ==
    /\ inst # NoObj => OnConnection(inst)
    /\ ret.kind \in {"obj", "self"} => OnConnection(ret.obj)
    /\ \A i \in 1..Len(ret.items) : OnConnection(ret.items[i])

\* every child Manager the type of o declares is held under its name
HoldsManagers(o) ==
    \A m \in Descriptor(o.cls).managers : o.attrs[m.var] = "Mgr"

\* C17: from the end of its construction on, and after any re-hydration, an
\* Instance holds under each declared manager name the Manager built at
\* construction.
C17_ManagersPersist ==
    /\ inst # NoObj => HoldsManagers(inst)
    /\ ret.kind = "obj" => HoldsManagers(ret.obj)
    /\ \A i \in 1..Len(ret.items) : HoldsManagers(ret.items[i])

\* C18: when a transport call of a get, list, create, save or delete fails,
\* the operation ends there with the error of that call: it issues nothing
\* more, returns nothing, and a get from the listing raises the list error,
\* never "Object not found".
C18_TransportErrorPropagates ==
    \A i \in 1..Len(calls) :
        (calls[i].fn \in {"get", "list", "create", "update", "delete"}
         /\ ~calls[i].answer.ok) =>
            /\ outcome = TransportError(calls[i].fn)
            /\ outcome # NotFound
            /\ i = Len(calls)
            /\ ret = NoRet

C18_Witness ==
    /\ op.name = "get" /\ Descriptor(op.cls).canGet = "from_list"
    /\ Len(calls) = 1 /\ ~calls[1].answer.ok
    /\ outcome = "GitlabListError"

\* C19: a successful delete() of a server-hydrated Instance is one gl.delete
\* call on that Instance, and leaves every attribute, the origin flag and the
\* Managers included, as before the call.
C19_DeleteFrame ==
    (op.name = "delete" /\ ~ViaManager /\ FromApi(op.pre) /\ outcome = OK) =>
        /\ Len(calls) = 1
        /\ calls[1].fn = "delete" /\ calls[1].self = op.pre.attrs
        /\ calls[1].args = op.kwargs
        /\ inst = op.pre
        /\ FromApi(inst)
        /\ ChildManagers = {Manager(m.cls, op.pre, m.args) :
                               m \in Descriptor(op.cls).managers}

C19_Witness ==
    /\ op.name = "delete" /\ ~ViaManager /\ FromApi(op.pre) /\ outcome = OK
    /\ Len(calls) = 1 /\ calls[1].fn = "delete"
    /\ op.cls = "User" /\ inst.attrs["keys"] = "Mgr" /\ inst.attrs["id"] = "i1"

\* C20: Project.star() issues one raw POST; answered 304 it returns the
\* receiver itself, unchanged, and raises nothing; answered 201 with a body it
\* returns a new Project Instance, not the receiver, carrying the attributes
\* of the body, and the receiver is unchanged.
C20_Star ==
    op.name = "star" =>
        /\ Len(calls) = 1 /\ calls[1].fn = "raw_post"
        /\ calls[1].self = op.pre.attrs
        /\ inst = op.pre
        /\ calls[1].answer.status = 304 =>
               /\ outcome = OK
               /\ ret = RetSelf(op.pre)
        /\ calls[1].answer.status = 201 =>
               /\ outcome = OK
               /\ ret.kind = "obj" /\ ret.obj.cls = "Project"
               /\ \A k \in Dom(calls[1].answer.body) :
                      GetAttr(ret.obj, k) =
                          Hydrated("Project", Gl, k, calls[1].answer.body[k])
               /\ ret.obj.attrs["gitlab"] = op.pre.attrs["gitlab"]

C20_Witness ==
    /\ op.name = "star" /\ outcome = OK /\ Len(calls) = 1
    /\ calls[1].answer.status = 201
    /\ "owner" \in DOMAIN calls[1].answer.body
    /\ ret.kind = "obj" /\ ret.obj # op.pre /\ inst = op.pre

C20_WitnessSame ==
    /\ op.name = "star" /\ outcome = OK /\ Len(calls) = 1
    /\ calls[1].answer.status = 304
    /\ ret = RetSelf(inst) /\ GetAttr(inst, "owner") \in InstTokens

\* the attributes that are machinery of an Instance of cls, not fields
Machinery(cls) ==
    {"_from_api", "gitlab"} \cup {m.var : m \in Descriptor(cls).managers}

\* C21: get(connection, id) on a type whose get permission is True issues
\* exactly one gl.get call for that type and id and no list call; the Instance
\* it returns is server-hydrated and its fields are those of the response
\* overlaid with the extra parameters of the call.
C21_DirectGet ==
    (op.name = "get" /\ ~ViaManager /\ Descriptor(op.cls).canGet = "True") =>
        /\ Len(calls) = 1
        /\ calls[1].fn = "get" /\ calls[1].cls = op.cls /\ calls[1].id = op.id
        /\ calls[1].args = op.kwargs
        /\ outcome = OK <=> calls[1].answer.ok
        /\ outcome = OK =>
               /\ ret.kind = "obj" /\ ret.obj.cls = op.cls
               /\ FromApi(ret.obj)
               /\ \A k \in Keys \ Machinery(op.cls) :
                      LET v == IF op.kwargs[k] # Absent THEN op.kwargs[k]
                               ELSE IF calls[1].answer.body[k] # Absent
                               THEN Hydrated(op.cls, Gl, k, calls[1].answer.body[k])
                               ELSE Absent
                      IN  ret.obj.attrs[k] = IF k = "id" /\ v = Absent THEN "None" ELSE v

C21_Witness ==
    /\ op.name = "get" /\ ~ViaManager /\ op.cls = "User" /\ op.id = "i1"
    /\ outcome = OK /\ Len(calls) = 1 /\ calls[1].fn = "get"
    /\ op.kwargs["name"] = "s1" /\ calls[1].answer.body["name"] = "sa"
    /\ calls[1].answer.body["id"] = "i1"
    /\ ret.obj.attrs["name"] = "s1" /\ FromApi(ret.obj)

\* the raw PUT of merge() or cancel_merge_when_build_succeeds() was issued
MergePut ==
    /\ op.name \in {"merge", "cancel_merge_when_build_succeeds"}
    /\ calls # <<>>

\* what C22 states for every status but 406
MergeFrame ==
    /\ Len(calls) = 1 /\ calls[1].fn = "raw_put"
    /\ calls[1].self = op.pre.attrs /\ calls[1].data = op.data
    /\ inst = op.pre
    /\ calls[1].answer.status = 401 => outcome = "GitlabMRForbiddenError"
    /\ calls[1].answer.status = 405 => outcome = "GitlabMRClosedError"
    /\ outcome = OK <=> calls[1].answer.status = 200
    /\ outcome = OK =>
           /\ ret.kind = "obj" /\ ret.obj.cls = "ProjectMergeRequest"
           /\ \A k \in Dom(calls[1].answer.body) :
                  GetAttr(ret.obj, k) =
                      Hydrated("ProjectMergeRequest", SelfRef, k,
                               calls[1].answer.body[k])
    /\ outcome # OK => ret = NoRet

\* C22 as stated: merge() and cancel_merge_when_build_succeeds() each issue one
\* raw PUT; 401 raises GitlabMRForbiddenError, 405 GitlabMRClosedError and 406
\* GitlabMROnBuildSuccessError; only the success status returns a new merge
\* request built from the body; an error returns nothing and leaves the
\* receiver unchanged.
C22_MergeMapsAllThree ==
    MergePut =>
        /\ MergeFrame
        /\ calls[1].answer.status = 406 => outcome = "GitlabMROnBuildSuccessError"

\* C22, amended: as above, but 406 raises GitlabMROnBuildSuccessError from
\* cancel_merge_when_build_succeeds() only; merge() maps 401 and 405, and a 406
\* raises an error that is none of the three.
C22_MergeMaps ==
    MergePut =>
        /\ MergeFrame
        /\ calls[1].answer.status = 406 =>
               IF op.name = "merge"
               THEN outcome \notin {OK, "GitlabMRForbiddenError", "GitlabMRClosedError",
                                    "GitlabMROnBuildSuccessError"}
               ELSE outcome = "GitlabMROnBuildSuccessError"

C22_Witness ==
    /\ op.name = "merge" /\ Len(calls) = 1 /\ calls[1].answer.status = 406
    /\ outcome = OperationError /\ ret = NoRet /\ inst = op.pre
    /\ op.data["merge_commit_message"] = "sa"

C22_WitnessCancel ==
    /\ op.name = "cancel_merge_when_build_succeeds" /\ Len(calls) = 1
    /\ calls[1].answer.status = 406 /\ outcome = "GitlabMROnBuildSuccessError"

C22_WitnessMerged ==
    /\ op.name = "merge" /\ outcome = OK /\ ret.kind = "obj"
    /\ ret.obj.attrs["state"] = "active" /\ ret.obj # op.pre

\* a child Manager's direct-fetch get or create returned an Instance
ObtainedFromChildManager ==
    /\ ViaChildManager /\ outcome = OK /\ ret.kind = "obj"
    /\ \/ op.name = "create"
       \/ op.name = "get" /\ Descriptor(op.cls).canGet = "True"

C23_WitnessChain ==
    /\ ViaChildManager /\ op.mgr.parent.cls = "ProjectIssue"
    /\ op.cls = "ProjectIssueNote" /\ op.kwargs = EmptyMap /\ calls # <<>>
    /\ Carried["project_id"] = "s1" /\ Carried["issue_id"] = "i1"

\* set_release_description() was called on a tag that has a release
\* attribute, null or not, and the attributes its URL is built from
ReleaseCall ==
    /\ op.name = "set_release_description"
    /\ \A k \in {"project_id", "name", "release"} : GetAttr(op.pre, k) # Absent

\* one call: POST when the release is null, PUT otherwise; a success stores a
\* release Instance built from the response, a failure changes nothing
ReleaseUpsert ==
    ReleaseCall =>
        /\ Len(calls) = 1
        /\ calls[1].fn = "raw_post" <=> op.pre.attrs["release"] = "None"
        /\ calls[1].fn = "raw_put"  <=> op.pre.attrs["release"] # "None"
        /\ outcome = OK <=>
               calls[1].answer.status = (IF calls[1].fn = "raw_post" THEN 201 ELSE 200)
        /\ outcome = OK =>
               /\ inst.attrs["release"] \in InstTokens
               /\ NestedOf(inst.attrs["release"]).cls = "ProjectTagRelease"
               /\ MapOf(NestedOf(inst.attrs["release"]).raw) = calls[1].answer.body
               /\ inst = [op.pre EXCEPT !.attrs["release"] = inst.attrs["release"]]
        /\ outcome # OK => inst = op.pre

\* a call on a tag whose release is not null issues PUT and leaves it not null
ReleaseStays ==
    (/\ op'.name = "set_release_description"
     /\ inst.cls = "ProjectTag"
     /\ inst.attrs["release"] \notin {Absent, "None"}
     /\ calls' # <<>>) =>
        /\ calls'[1].fn = "raw_put"
        /\ inst'.attrs["release"] \notin {Absent, "None"}

StateCall == op.name \in {"block", "unblock"}

\* one PUT; a success sets the state the verb names and nothing else, an
\* error raises the error of the verb and changes nothing
StateVerb ==
    StateCall =>
        /\ Len(calls) = 1 /\ calls[1].fn = "raw_put"
        /\ calls[1].self = op.pre.attrs /\ calls[1].args = op.kwargs
        /\ outcome = OK <=> calls[1].answer.ok
        /\ outcome = OK =>
               inst = [op.pre EXCEPT !.attrs["state"] =
                          IF op.name = "block" THEN "blocked" ELSE "active"]
        /\ outcome # OK =>
               /\ outcome = (IF op.name = "block" THEN "GitlabBlockError"
                             ELSE "GitlabUnblockError")
               /\ inst = op.pre

\* between two calls the state attribute is what the last call left
StateKept ==
    (inst.cls = "User" /\ inst'.cls = "User" /\ ~StateCall') =>
        inst'.attrs["state"] = inst.attrs["state"]

\* C25: in a sequence of block() and unblock() calls on a User each call
\* issues exactly one raw PUT; a successful block() leaves state 'blocked', a
\* successful unblock() leaves it 'active', a call answered with an error
\* raises the block / unblock error and leaves state as it was: the state is
\* that of the last successful call.
C25_BlockUnblock == [](StateVerb) /\ [][StateKept]_vars

\* a failed unblock() after a successful block()
C25_Witness ==
    /\ op.name = "unblock" /\ outcome = "GitlabUnblockError"
    /\ Len(calls) = 1 /\ ~calls[1].answer.ok
    /\ op.pre.attrs["state"] = "blocked" /\ inst.attrs["state"] = "blocked"

\* protect() or unprotect() was called on a branch that has the attributes
\* the URL is built from, and the server answered with success
ProtectCall ==
    /\ op.name \in {"protect", "unprotect"}
    /\ GetAttr(op.pre, "project_id") # Absent /\ GetAttr(op.pre, "name") # Absent
    /\ Len(calls) = 1 /\ calls[1].answer.ok

\* the call was protect(), not unprotect() or protect(False)
Protecting == op.name = "protect" /\ Truthy(op.data["protected"])

\* C26: in a sequence of protect() and unprotect() calls on a ProjectBranch
\* in which every request succeeds, every call completes without raising, and
\* the branch is marked protected afterwards exactly when the last call was
\* protect(); unprotect() twice in a row, or on a branch without a protected
\* attribute, completes normally.
C26_ProtectUnprotect ==
    ProtectCall =>
        /\ outcome = OK
        /\ inst.attrs["protected"] = "True" <=> Protecting

\* what holds of protect() and unprotect(): a successful protect() marks the
\* branch; an unprotect() removes the attribute when the branch has it and
\* raises AttributeError, after the request, when it has not; the branch is
\* never left marked protected by an unprotect()
C26_ProtectMarks ==
    ProtectCall =>
        /\ Protecting => (outcome = OK /\ inst.attrs["protected"] = "True")
        /\ ~Protecting =>
               /\ outcome = (IF op.pre.attrs["protected"] = Absent THEN AttrErr ELSE OK)
               /\ inst.attrs["protected"] = Absent

\* the second of two unprotect() calls in a row
C26_Witness ==
    /\ ProtectCall /\ op.name = "unprotect"
    /\ op.pre.attrs["protected"] = Absent /\ op.pre.built["protected"] = "False"
    /\ outcome = AttrErr

\* a ProjectIssue was serialized without explicit extra parameters
IssueSerialized ==
    /\ op.name = "serialize" /\ op.cls = "ProjectIssue" /\ op.defaulted
    /\ outcome = OK

\* C27: the payload of a ProjectIssue serialized without explicit extra
\* parameters depends on the attributes of that Instance only: it is the
\* payload the same call gives before any other issue was serialized, and it
\* carries no labels when the Instance has none.
C27_PayloadOfOwnAttributes ==
    IssueSerialized =>
        /\ ret = IssueDataForGitlabFresh(op.pre, EmptyMap, op.update).ret
        /\ op.pre.attrs["labels"] = Absent => ret.data["labels"] = Absent

\* what holds instead: the payload is that of the Instance's attributes
\* overlaid with the labels the shared default dict has accumulated
C27_PayloadWithSharedDefault ==
    IssueSerialized =>
        /\ ret.kind = "data"
        /\ \A k \in Keys \ {"labels"} :
               ret.data[k] = IssueDataForGitlabFresh(op.pre, EmptyMap, op.update).ret.data[k]
        /\ ~JoinsLabels(op.pre) =>
               ret.data["labels"] \in
                   {IssueDataForGitlabFresh(op.pre, EmptyMap, op.update).ret.data["labels"],
                    JsonString("a, 1")}

\* an issue without labels, serialized after one with a list of labels
C27_Witness ==
    /\ IssueSerialized /\ op.pre.attrs["labels"] = Absent
    /\ ret.data["labels"] = JsonString("a, 1")

\* C30: serializing an Instance leaves every attribute of it unchanged, for
\* every type, User with a confirm attribute and ProjectIssue with a list of
\* labels included.
C30_SerializeFrame ==
    (op.name = "serialize" /\ outcome = OK) => inst = op.pre

\* what holds instead: serializing changes no attribute but confirm of a
\* User, which it replaces by its lower-case string
C30_SerializeFrameButConfirm ==
    (op.name = "serialize" /\ outcome = OK) =>
        /\ \A k \in Keys \ {"confirm"} : inst.attrs[k] = op.pre.attrs[k]
        /\ inst.attrs["confirm"] =
               IF op.cls = "User" THEN LowerStr(op.pre.attrs["confirm"])
               ELSE op.pre.attrs["confirm"]

\* a User whose confirm was True holds the string 'true' after serialization
C30_Witness ==
    /\ op.name = "serialize" /\ outcome = OK /\ op.cls = "User"
    /\ op.pre.attrs["confirm"] = "True" /\ inst.attrs["confirm"] = "true"
    /\ ret.data["confirm"] = JsonString("true")

\* the transport call of a save() raised
SaveFailed ==
    /\ op.name = "save" /\ Len(calls) = 1
    /\ calls[1].fn \in {"create", "update"} /\ ~calls[1].answer.ok

\* C28: when the transport create or update call raises during save(), the
\* attributes of the Instance and its origin flag are what they were before
\* save() was called, for every type, GroupMember included.
C28_FailedSaveFrame ==
    SaveFailed => inst = op.pre

\* what holds instead: a failed save() changes nothing but user_id of a
\* GroupMember, which a failed update leaves set to the member's id
C28_FailedSaveFrameButUserId ==
    SaveFailed =>
        /\ outcome = TransportError(calls[1].fn)
        /\ \A k \in Keys \ {"user_id"} : inst.attrs[k] = op.pre.attrs[k]
        /\ inst.attrs["user_id"] =
               IF op.cls = "GroupMember" /\ calls[1].fn = "update"
               THEN op.pre.attrs["id"] ELSE op.pre.attrs["user_id"]

\* a group member whose failed update left user_id set
C28_Witness ==
    /\ SaveFailed /\ op.cls = "GroupMember" /\ calls[1].fn = "update"
    /\ op.pre.attrs["user_id"] = Absent /\ inst.attrs["user_id"] = "i1"
    /\ calls[1].self["user_id"] = "i1"

\* the transport call c is the single-item fetch of a type that is fetched
\* from its listing
GetOfListedType(c) ==
    c.fn = "get" /\ Descriptor(c.cls).canGet = "from_list"

\* C29: no operation invokes gl.get for a type whose get permission is
\* 'from_list': not Manager.get, not the class-level get, not the deprecated
\* accessor, not a construction with an int, a string or None for data.
C29_NeverGetsListedType ==
    \A i \in 1..Len(calls) : ~GetOfListedType(calls[i])

\* what holds instead: gl.get for such a type is invoked by a construction
\* with an id, and by nothing else; get and the accessor go through gl.list
C29_OnlyConstructionGets ==
    /\ \A i \in 1..Len(calls) : GetOfListedType(calls[i]) => op.name = "init"
    /\ (op.name \in {"get", "Key"} /\ Descriptor(op.cls).canGet = "from_list"
        /\ calls # <<>>) =>
           Len(calls) = 1 /\ calls[1].fn = "list"

\* UserKey(gl, 1, user_id=2) reaches gl.get
C29_Witness ==
    /\ op.name = "init" /\ op.cls = "UserKey" /\ op.id = "i1"
    /\ op.kwargs["user_id"] = "i2"
    /\ Len(calls) = 1 /\ GetOfListedType(calls[1]) /\ calls[1].answer.ok
    /\ outcome = OK

====
